---- MODULE Spec2Model ----
(***************************************************************************)
(* Model of the multi-provider image generation server: the provider       *)
(* clients' model catalogs, the provider factory (registry), the model     *)
(* resolver, and the text-to-image / image-to-image tool handlers.         *)
(*                                                                         *)
(* Strings are sequences of tokens.  The token "/" is the character '/';   *)
(* every other token is a run of characters without '/'.  Concatenation    *)
(* is \o, String.includes is contiguous-subsequence, String.split cuts at  *)
(* the "/" tokens.  The strings drawn as inputs are tokenised so that the  *)
(* token-level includes agrees with the character-level one on them.       *)
(***************************************************************************)
EXTENDS Integers, Sequences, FiniteSets, TLC

(***************************************************************************)
(* Bounds of the model.                                                    *)
(***************************************************************************)
\* longest provider list of a configuration given to createFromConfig
MaxProviders == 2
\* tool invocations in flight in one run of the server
MaxCalls == 2

(***************************************************************************)
(* JavaScript values.                                                      *)
(***************************************************************************)
\* the value undefined, where a string is expected
Undefined == "undefined"

\* truthiness of a string-or-undefined value: !x is true for undefined and ""
Truthy(x) == x # Undefined /\ x # ""

\* an optional non-string value: <<>> is undefined, <<v>> is v
None == <<>>
Some(v) == <<v>>
IsSome(o) == Len(o) = 1
Get(o) == o[1]

\* a thrown Error and a normal return
Throw(message) == [type |-> "throw", message |-> message]
Return(value) == [type |-> "return", value |-> value]
IsThrow(r) == r.type = "throw"

(***************************************************************************)
(* Strings.                                                                *)
(***************************************************************************)
Slash == "/"

\* a one-token string
S(tok) == <<tok>>

\* s.includes('/')
HasSlash(s) == \E i \in 1..Len(s) : s[i] = Slash

\* s.includes(sub)
Includes(s, sub) ==
  \E i \in 0..(Len(s) - Len(sub)) :
    \A j \in 1..Len(sub) : s[i + j] = sub[j]

\* s.startsWith(prefix)
StartsWith(s, prefix) ==
  /\ Len(prefix) <= Len(s)
  /\ \A j \in 1..Len(prefix) : s[j] = prefix[j]

\* index of the first "/" of s at or after position from; Len(s)+1 when none
RECURSIVE NextSlash(_, _)
NextSlash(s, from) ==
  IF from > Len(s) THEN Len(s) + 1
  ELSE IF s[from] = Slash THEN from
  ELSE NextSlash(s, from + 1)

\* s.split('/', 2): the first two '/'-separated pieces of s (one piece when
\* s holds no '/'); what follows a second '/' is dropped
Split2(s) ==
  LET a == NextSlash(s, 1)
      b == NextSlash(s, a + 1)
  IN IF a > Len(s) THEN <<s>>
     ELSE <<SubSeq(s, 1, a - 1), SubSeq(s, a + 1, b - 1)>>

\* String.prototype.toLowerCase on the tokens the model uses
LowerTok(t) ==
  CASE t = "STABLE_DIFFUSION_XL" -> "stable_diffusion_xl"
    [] t = "STABLE_DIFFUSION" -> "stable_diffusion"
    [] t = "FLUX" -> "flux"
    [] t = "_SCHNELL" -> "_schnell"
    [] t = "PLAYGROUND_V2_5" -> "playground_v2_5"
    [] t = "KANDINSKY_2_2" -> "kandinsky_2_2"
    [] t = "DALLE3" -> "dalle3"
    [] OTHER -> t

ToLowerCase(s) == [i \in 1..Len(s) |-> LowerTok(s[i])]

\* Array.prototype.join(', ')
RECURSIVE Join(_)
Join(strs) ==
  IF Len(strs) = 0 THEN <<>>
  ELSE IF Len(strs) = 1 THEN strs[1]
  ELSE strs[1] \o <<", ">> \o Join(Tail(strs))

(***************************************************************************)
(* Objects used as ordered string-keyed records (Record<string, string>):  *)
(* a sequence of entries with pairwise distinct keys, in insertion order.  *)
(***************************************************************************)
Entry(k, v) == [key |-> k, value |-> v]

\* Object.keys / Object.values
Keys(obj) == [i \in 1..Len(obj) |-> obj[i].key]
Values(obj) == [i \in 1..Len(obj) |-> obj[i].value]

\* arr.includes(x)
ArrIncludes(arr, x) == \E i \in 1..Len(arr) : arr[i] = x

HasKey(obj, k) == \E i \in 1..Len(obj) : obj[i].key = k

\* obj[k] for a key the object holds
Lookup(obj, k) == obj[CHOOSE i \in 1..Len(obj) : obj[i].key = k].value

\* obj[k] = v: an existing key keeps its place, a new key goes last (o is
\* the value of obj, taken once)
ObjSet(obj, k, v) ==
  CHOOSE result \in
    { IF HasKey(o, k)
        THEN [i \in 1..Len(o) |-> IF o[i].key = k THEN Entry(k, v) ELSE o[i]]
        ELSE Append(o, Entry(k, v)) : o \in {obj} } : TRUE

\* Object.entries(obj).find(pred): index of the first entry satisfying
\* Match(entry), 0 when there is none
FindIndex(obj, Match(_)) ==
  IF \E i \in 1..Len(obj) : Match(obj[i])
    THEN CHOOSE i \in 1..Len(obj) :
           /\ Match(obj[i])
           /\ \A j \in 1..(i - 1) : ~Match(obj[j])
    ELSE 0

(***************************************************************************)
(* Provider identities and capability descriptors.                         *)
(***************************************************************************)
\* enum ProviderType, in declaration order (the key order of PROVIDER_CONFIGS)
ProviderOrder == <<"openai", "stability", "replicate", "huggingface">>
ProviderType == {ProviderOrder[i] : i \in 1..Len(ProviderOrder)}

PROVIDER_CONFIGS ==
  [p \in ProviderType |->
     CASE p = "openai" ->
            [name |-> S("OpenAI"), envKey |-> "OPENAI_API_KEY",
             supportedFeatures |-> {"text-to-image", "image-to-image"}]
       [] p = "stability" ->
            [name |-> S("Stability AI"), envKey |-> "STABILITY_API_KEY",
             supportedFeatures |-> {"text-to-image", "image-to-image"}]
       [] p = "replicate" ->
            [name |-> S("Replicate"), envKey |-> "REPLICATE_API_TOKEN",
             supportedFeatures |-> {"text-to-image", "image-to-image"}]
       [] p = "huggingface" ->
            [name |-> S("Hugging Face"), envKey |-> "HUGGINGFACE_API_KEY",
             supportedFeatures |-> {"text-to-image"}]]

EnvKeys == {PROVIDER_CONFIGS[p].envKey : p \in ProviderType}

(***************************************************************************)
(* Default model catalogs.                                                 *)
(***************************************************************************)
OPENAI_MODELS ==
  << Entry(S("GPT_IMAGE"), S("gpt-image-1")),
     Entry(S("DALLE2"), S("dall-e-2")),
     Entry(S("DALLE3"), S("dall-e-3")) >>

STABILITY_MODELS ==
  << Entry(S("STABLE_DIFFUSION_XL"), S("stable-diffusion-xl-1024-v1-0")),
     Entry(S("STABLE_DIFFUSION_V2_1"), S("stable-diffusion-v2-1")),
     Entry(S("STABLE_DIFFUSION_V1_6"), S("stable-diffusion-v1-6")),
     Entry(S("STABLE_DIFFUSION_512_V2_1"), S("stable-diffusion-512-v2-1")) >>

REPLICATE_MODELS ==
  << Entry(S("STABLE_DIFFUSION_XL"),
           <<"stability-ai", Slash,
             "sdxl:7762fd07cf82c948538e41f63f77d685e02b063e37e496e96eefd46c929f9bdc">>),
     Entry(S("STABLE_DIFFUSION"),
           <<"stability-ai", Slash,
             "stable-diffusion:27b93a2413e7f36cd83da926f3656280b2931564ff050bf9575f1fdf9bcd7478">>),
     Entry(<<"FLUX", "_SCHNELL">>,
           <<"black-forest-labs", Slash,
             "flux-schnell:bf2f2b6c6d3c4f7b7c5e8c6f4d2f1e6b8a9c0e8f">>),
     Entry(S("PLAYGROUND_V2_5"),
           <<"playgroundai", Slash,
             "playground-v2.5-1024px-aesthetic:a45f82a1382bed5c7aeb861dac7c7d191b0fdf74d8d57c4a0e6ed7d4d0bf7d24">>),
     Entry(S("KANDINSKY_2_2"),
           <<"ai-forever", Slash,
             "kandinsky-2.2:ad9d7879fbffa2874e1d909d1d37d9bc682889cc65b31f7bb00d2362619f194a">>) >>

HUGGINGFACE_MODELS ==
  << Entry(S("STABLE_DIFFUSION_XL"),
           <<"stabilityai", Slash, "stable-diffusion-xl-base-1.0">>),
     Entry(S("STABLE_DIFFUSION_2_1"),
           <<"stabilityai", Slash, "stable-diffusion-2-1">>),
     Entry(S("DALLE_MINI"), <<"dalle-mini", Slash, "dalle-mini">>),
     Entry(S("FLUX_SCHNELL"),
           <<"black-forest-labs", Slash, "FLUX", ".1-schnell">>),
     Entry(S("STABLE_DIFFUSION_3"),
           <<"stabilityai", Slash, "stable-diffusion-3-medium-diffusers">>),
     Entry(S("PLAYGROUND_V2_5"),
           <<"playgroundai", Slash, "playground-v2.5-1024px-aesthetic">>) >>

(***************************************************************************)
(* Provider client constructors: the exposed catalog (this.allowedModels)  *)
(* computed from config.allowedModels, an optional list of strings.        *)
(***************************************************************************)
\* OpenAI and Stability: an allow-list string selects the default entry
\* whose backend id equals it; any other string is ignored
RECURSIVE SelectByValue(_, _, _)
SelectByValue(defaults, names, acc) ==
  IF Len(names) = 0 THEN acc
  ELSE LET modelName == Head(names)
           i == FindIndex(defaults, LAMBDA e : e.value = modelName)
       IN SelectByValue(defaults, Tail(names),
            IF i # 0 THEN ObjSet(acc, defaults[i].key, defaults[i].value)
            ELSE acc)

OpenAIAllowedModels(allowedModels) ==
  IF IsSome(allowedModels) /\ Len(Get(allowedModels)) > 0
    THEN LET selected == SelectByValue(OPENAI_MODELS, Get(allowedModels), <<>>)
         IN IF Len(selected) = 0 THEN OPENAI_MODELS ELSE selected
    ELSE OPENAI_MODELS

StabilityAllowedModels(allowedModels) ==
  IF IsSome(allowedModels) /\ Len(Get(allowedModels)) > 0
    THEN LET selected == SelectByValue(STABILITY_MODELS, Get(allowedModels), <<>>)
         IN IF Len(selected) = 0 THEN STABILITY_MODELS ELSE selected
    ELSE STABILITY_MODELS

\* Replicate: an allow-list string selects the first default entry whose
\* lower-cased key contains it (lower-cased) or whose key equals it; any other
\* string is entered verbatim as key and as backend id
RECURSIVE ReplicateSelect(_, _)
ReplicateSelect(names, acc) ==
  IF Len(names) = 0 THEN acc
  ELSE LET modelName == Head(names)
           i == FindIndex(REPLICATE_MODELS,
                  LAMBDA e : \/ Includes(ToLowerCase(e.key), ToLowerCase(modelName))
                             \/ modelName = e.key)
       IN ReplicateSelect(Tail(names),
            IF i # 0
              THEN ObjSet(acc, REPLICATE_MODELS[i].key, REPLICATE_MODELS[i].value)
              ELSE ObjSet(acc, modelName, modelName))

ReplicateAllowedModels(allowedModels) ==
  IF IsSome(allowedModels) /\ Len(Get(allowedModels)) > 0
    THEN LET selected == ReplicateSelect(Get(allowedModels), <<>>)
         IN IF Len(selected) = 0 THEN <<REPLICATE_MODELS[1]>> ELSE selected
    ELSE REPLICATE_MODELS

\* Hugging Face: an allow-list string selects the first default entry whose
\* backend id equals or contains it; any other string is entered verbatim
RECURSIVE HuggingFaceSelect(_, _)
HuggingFaceSelect(names, acc) ==
  IF Len(names) = 0 THEN acc
  ELSE LET modelName == Head(names)
           i == FindIndex(HUGGINGFACE_MODELS,
                  LAMBDA e : e.value = modelName \/ Includes(e.value, modelName))
       IN HuggingFaceSelect(Tail(names),
            IF i # 0
              THEN ObjSet(acc, HUGGINGFACE_MODELS[i].key, HUGGINGFACE_MODELS[i].value)
              ELSE ObjSet(acc, modelName, modelName))

HuggingFaceAllowedModels(allowedModels) ==
  IF IsSome(allowedModels) /\ Len(Get(allowedModels)) > 0
    THEN LET selected == HuggingFaceSelect(Get(allowedModels), <<>>)
         IN IF Len(selected) = 0 THEN <<HUGGINGFACE_MODELS[1]>> ELSE selected
    ELSE HUGGINGFACE_MODELS

\* new XImageProvider(config): every constructor throws without an apiKey,
\* otherwise the client holds its exposed catalog
NewProvider(providerType, providerConfig) ==
  IF ~Truthy(providerConfig.apiKey)
    THEN Throw(CASE providerType = "openai" -> S("OpenAI API key is required")
                 [] providerType = "stability" -> S("Stability AI API key is required")
                 [] providerType = "replicate" -> S("Replicate API token is required")
                 [] providerType = "huggingface" ->
                      S("Hugging Face API token is required"))
    ELSE Return([type |-> providerType,
                 allowedModels |->
                   CASE providerType = "openai" ->
                          OpenAIAllowedModels(providerConfig.allowedModels)
                     [] providerType = "stability" ->
                          StabilityAllowedModels(providerConfig.allowedModels)
                     [] providerType = "replicate" ->
                          ReplicateAllowedModels(providerConfig.allowedModels)
                     [] providerType = "huggingface" ->
                          HuggingFaceAllowedModels(providerConfig.allowedModels)])

\* provider.getAllowedModels()
getAllowedModels(provider) == provider.allowedModels

\* provider.getDefaultModel(): Object.values(this.allowedModels)[0]
getDefaultModel(provider) == Values(provider.allowedModels)[1]

(***************************************************************************)
(* ImageProviderFactory.  The Map<ProviderType, BaseImageProvider> is an   *)
(* ordered object keyed by provider type (Map keeps insertion order and    *)
(* Map.set on a present key keeps its place).  A configuration is          *)
(*   [providers, defaultProvider, providerSettings]                        *)
(* where providerSettings[p] is the optional allowedModels list of p.      *)
(***************************************************************************)
\* createProvider: the credential is read from the environment; a missing or
\* empty one throws
createProvider(environment, cfg, providerType) ==
  LET providerConfig == PROVIDER_CONFIGS[providerType]
      apiKey == environment[providerConfig.envKey]
  IN IF ~Truthy(apiKey)
       THEN Throw(S(providerConfig.envKey)
                  \o S(" environment variable is required for ")
                  \o providerConfig.name)
       ELSE NewProvider(providerType,
              [apiKey |-> apiKey,
               allowedModels |-> cfg.providerSettings[providerType]])

\* (mutation of InitializeLoop: the first provider that fails to construct
\* ends the loop instead of being skipped)
RECURSIVE InitializeLoop_AbortOnFailure(_, _, _, _)
InitializeLoop_AbortOnFailure(environment, cfg, todo, map) ==
  IF Len(todo) = 0 THEN map
  ELSE LET created == createProvider(environment, cfg, Head(todo))
       IN IF IsThrow(created) THEN map
          ELSE InitializeLoop_AbortOnFailure(environment, cfg, Tail(todo),
                 ObjSet(map, Head(todo), created.value))

\* the for loop of initializeProviders: a provider whose construction throws
\* is skipped with a warning
RECURSIVE InitializeLoop(_, _, _, _)
InitializeLoop(environment, cfg, todo, map) ==
  IF Len(todo) = 0 THEN map
  ELSE LET created == createProvider(environment, cfg, Head(todo))
       IN InitializeLoop(environment, cfg, Tail(todo),
            IF IsThrow(created) THEN map
            ELSE ObjSet(map, Head(todo), created.value))

NoProvidersMessage ==
  S("No providers were successfully initialized. Please check your configuration and API keys.")

\* (mutation of initializeProviders: an empty registry is returned)
initializeProviders_NoEmptyCheck(environment, cfg, chosenDefault) ==
  LET map == InitializeLoop(environment, cfg, cfg.providers, <<>>)
  IN IF Len(map) # 0 /\ ~HasKey(map, chosenDefault)
       THEN Return([providers |-> map, defaultProvider |-> map[1].key])
       ELSE Return([providers |-> map, defaultProvider |-> chosenDefault])

\* (mutation of initializeProviders: a default that did not initialize is kept)
initializeProviders_KeepDefault(environment, cfg, chosenDefault) ==
  LET map == InitializeLoop(environment, cfg, cfg.providers, <<>>)
  IN IF Len(map) = 0 THEN Throw(NoProvidersMessage)
     ELSE Return([providers |-> map, defaultProvider |-> chosenDefault])

\* initializeProviders, given the default the constructor chose
initializeProviders(environment, cfg, chosenDefault) ==
  LET map == InitializeLoop(environment, cfg, cfg.providers, <<>>)
  IN IF Len(map) = 0 THEN Throw(NoProvidersMessage)
     ELSE IF ~HasKey(map, chosenDefault)
       THEN Return([providers |-> map, defaultProvider |-> map[1].key])
       ELSE Return([providers |-> map, defaultProvider |-> chosenDefault])

\* constructor(config): config.defaultProvider || config.providers[0]
NewFactory(environment, cfg) ==
  initializeProviders(environment, cfg,
    IF Truthy(cfg.defaultProvider) THEN cfg.defaultProvider
    ELSE IF Len(cfg.providers) > 0 THEN cfg.providers[1]
    ELSE Undefined)

\* the providers createFromConfig detects in the environment
DetectedProviders(environment) ==
  SelectSeq(ProviderOrder,
            LAMBDA p : Truthy(environment[PROVIDER_CONFIGS[p].envKey]))

\* the { ...defaultConfig, ...config } of createFromConfig; partial.providers
\* is optional, partial.defaultProvider is Undefined when the key is absent
FinalConfig(environment, partial) ==
  LET availableProviders == DetectedProviders(environment)
      defaultConfig ==
        IF Len(availableProviders) > 0
          THEN [providers |-> availableProviders,
                defaultProvider |-> availableProviders[1]]
          ELSE [providers |-> <<"openai">>, defaultProvider |-> "openai"]
  IN [providers |-> IF IsSome(partial.providers) THEN Get(partial.providers)
                    ELSE defaultConfig.providers,
      defaultProvider |-> IF partial.defaultProvider # Undefined
                            THEN partial.defaultProvider
                            ELSE defaultConfig.defaultProvider,
      providerSettings |-> partial.providerSettings]

createFromConfig(environment, partial) ==
  NewFactory(environment, FinalConfig(environment, partial))

\* getProvider(providerType?) on the factory f = [providers, defaultProvider]
\* (mutation of getProvider: a provider that is not live is answered with the
\* default provider)
getProvider_FallbackToDefault(f, providerType) ==
  IF Truthy(providerType) /\ HasKey(f.providers, providerType)
    THEN Return(Lookup(f.providers, providerType))
  ELSE IF HasKey(f.providers, f.defaultProvider)
    THEN Return(Lookup(f.providers, f.defaultProvider))
  ELSE Throw(S("Provider ") \o S(f.defaultProvider)
             \o S(" is not available. Available providers: "))

getProvider(f, providerType) ==
  LET targetProvider == IF Truthy(providerType) THEN providerType
                        ELSE f.defaultProvider
  IN IF HasKey(f.providers, targetProvider)
       THEN Return(Lookup(f.providers, targetProvider))
       ELSE Throw(S("Provider ") \o S(targetProvider)
                  \o S(" is not available. Available providers: ")
                  \o Join([i \in 1..Len(f.providers) |-> S(f.providers[i].key)]))

getDefaultProvider(f) == getProvider(f, f.defaultProvider)

getAvailableProviders(f) == Keys(f.providers)

\* `${providerType}/${key}`
Prefixed(providerType, key) == S(providerType) \o S(Slash) \o key

\* getAllProviderModels: per provider, its catalog under prefixed keys
getAllProviderModels(f) ==
  [i \in 1..Len(f.providers) |->
     LET models == getAllowedModels(f.providers[i].value)
     IN Entry(f.providers[i].key,
              [j \in 1..Len(models) |->
                 Entry(Prefixed(f.providers[i].key, models[j].key),
                       models[j].value)])]

\* obj[k] || fallback
LookupOr(obj, k, fallback) ==
  IF HasKey(obj, k) /\ Lookup(obj, k) # <<>> THEN Lookup(obj, k) ELSE fallback

\* getProviderFromModel(modelId)
getProviderFromModel(f, modelId) ==
  LET parts == Split2(modelId)
      providerName == parts[1]
      modelName == parts[2]
      prefixHit ==
        /\ HasSlash(modelId)
        /\ Len(providerName) = 1
        /\ HasKey(f.providers, providerName[1])
        /\ LET availableModels ==
                 getAllowedModels(Lookup(f.providers, providerName[1]))
           IN \/ LookupOr(availableModels, modelName, <<>>) # <<>>
              \/ ArrIncludes(Values(availableModels), modelName)
      found == FindIndex(f.providers,
                 LAMBDA e : LET models == getAllowedModels(e.value)
                            IN \/ ArrIncludes(Values(models), modelId)
                               \/ ArrIncludes(Keys(models), modelId))
  IN IF prefixHit
       THEN LET provider == Lookup(f.providers, providerName[1])
            IN Return([provider |-> provider,
                       model |-> LookupOr(getAllowedModels(provider),
                                          modelName, modelName)])
     ELSE IF found # 0
       THEN LET provider == f.providers[found].value
            IN Return([provider |-> provider,
                       model |-> LookupOr(getAllowedModels(provider),
                                          modelId, modelId)])
     ELSE LET fallback == getDefaultProvider(f)
          IN IF IsThrow(fallback) THEN fallback
             ELSE Return([provider |-> fallback.value, model |-> modelId])

(***************************************************************************)
(* Provider operations.  A provider method is an async function: it runs   *)
(* to its first backend call (Await), and is resumed with what the backend *)
(* answered, until it returns an ImageGenerationResponse or throws.        *)
(*   params: [prompt, model, n, size, style, background, output_format,    *)
(*            images, mask]; a string field that is <<>> is unset.         *)
(*   outcome of a backend call: [kind, data, message], kind one of         *)
(*            "ok", "httpError", "networkError".                           *)
(* The fields response_format, output_compression, moderation, quality and *)
(* user are copied into the request body and decide nothing; they are left *)
(* out of params.                                                          *)
(***************************************************************************)
Await(request, k) == [type |-> "await", request |-> request, k |-> k]
IsAwait(r) == r.type = "await"

\* a backend request: which provider's backend, which endpoint, for which
\* model, with which body fields
Request(providerType, endpoint, model, body) ==
  [provider |-> providerType, endpoint |-> endpoint, model |-> model,
   body |-> body]

\* BaseImageProvider.validateParams
validateParams(params) ==
  IF params.prompt = <<>> THEN Throw(S("Prompt is required"))
  ELSE Return(<<>>)

ModelNotAllowed(model, listed) ==
  S("Model \"") \o model \o S("\" is not allowed. Allowed models: ") \o Join(listed)

DALLE2 == S("dall-e-2")
DALLE3 == S("dall-e-3")
GPT_IMAGE == S("gpt-image-1")

\* (mutation of OpenAIGenerateImages: the dall-e-3 image count is not checked)
OpenAIGenerateImages_NoCountCheck(provider, params) ==
  LET allowed == Values(provider.allowedModels)
      model == IF params.model # <<>> THEN params.model
               ELSE getDefaultModel(provider)
  IN IF IsThrow(validateParams(params)) THEN validateParams(params)
     ELSE IF ~ArrIncludes(allowed, model)
       THEN Throw(ModelNotAllowed(model, allowed))
     ELSE IF model = DALLE2 /\ params.size # ""
             /\ params.size \notin {"256x256", "512x512", "1024x1024"}
       THEN Throw(S("dall-e-2 only supports sizes 256x256, 512x512, or 1024x1024"))
     ELSE IF model = DALLE3 /\ params.size # ""
             /\ params.size \notin {"1024x1024", "1792x1024", "1024x1792"}
       THEN Throw(S("dall-e-3 only supports sizes 1024x1024, 1792x1024, or 1024x1792"))
     ELSE IF params.background = "transparent" /\ params.output_format # ""
             /\ params.output_format \notin {"png", "webp"}
       THEN Throw(S("When background is transparent, output_format must be png or webp"))
     ELSE Await(Request("openai", "images/generations", model,
                        [prompt |-> params.prompt, n |-> params.n,
                         size |-> params.size,
                         style |-> IF model = DALLE3 THEN params.style ELSE ""]),
                [stage |-> "fetch", left |-> 0, pending |-> <<>>, data |-> <<>>])

\* OpenAIImageProvider.generateImages up to its fetch
OpenAIGenerateImages(provider, params) ==
  LET allowed == Values(provider.allowedModels)
      model == IF params.model # <<>> THEN params.model
               ELSE getDefaultModel(provider)
  IN IF IsThrow(validateParams(params)) THEN validateParams(params)
     ELSE IF ~ArrIncludes(allowed, model)
       THEN Throw(ModelNotAllowed(model, allowed))
     ELSE IF model = DALLE3 /\ params.n > 1
       THEN Throw(S("dall-e-3 model only supports n=1"))
     ELSE IF model = DALLE2 /\ params.size # ""
             /\ params.size \notin {"256x256", "512x512", "1024x1024"}
       THEN Throw(S("dall-e-2 only supports sizes 256x256, 512x512, or 1024x1024"))
     ELSE IF model = DALLE3 /\ params.size # ""
             /\ params.size \notin {"1024x1024", "1792x1024", "1024x1792"}
       THEN Throw(S("dall-e-3 only supports sizes 1024x1024, 1792x1024, or 1024x1792"))
     ELSE IF params.background = "transparent" /\ params.output_format # ""
             /\ params.output_format \notin {"png", "webp"}
       THEN Throw(S("When background is transparent, output_format must be png or webp"))
     ELSE Await(Request("openai", "images/generations", model,
                        [prompt |-> params.prompt, n |-> params.n,
                         size |-> params.size,
                         style |-> IF model = DALLE3 THEN params.style ELSE ""]),
                [stage |-> "fetch", left |-> 0, pending |-> <<>>, data |-> <<>>])

\* StabilityImageProvider.generateImages up to its fetch
StabilityGenerateImages(provider, params) ==
  LET allowed == Values(provider.allowedModels)
      model == IF params.model # <<>> THEN params.model
               ELSE getDefaultModel(provider)
  IN IF IsThrow(validateParams(params)) THEN validateParams(params)
     ELSE IF ~ArrIncludes(allowed, model)
       THEN Throw(ModelNotAllowed(model, allowed))
     ELSE Await(Request("stability", "text-to-image", model,
                        [prompt |-> params.prompt, n |-> params.n,
                         size |-> params.size, style |-> params.style]),
                [stage |-> "fetch", left |-> 0, pending |-> <<>>, data |-> <<>>])

\* ReplicateImageProvider.generateImages up to replicate.run: the model is a
\* catalog key (replaced by its version) or any other string (sent as is)
ReplicateGenerateImages(provider, params) ==
  LET model == IF params.model # <<>> THEN params.model
               ELSE Keys(provider.allowedModels)[1]
      modelVersion == LookupOr(provider.allowedModels, model, model)
  IN IF IsThrow(validateParams(params)) THEN validateParams(params)
     ELSE IF modelVersion = <<>>
       THEN Throw(ModelNotAllowed(model, Keys(provider.allowedModels)))
     ELSE Await(Request("replicate", "run", modelVersion,
                        [prompt |-> params.prompt, n |-> params.n,
                         size |-> params.size,
                         style |-> IF Includes(model, S("playground"))
                                      \/ Includes(model, S("PLAYGROUND"))
                                     THEN params.style ELSE ""]),
                [stage |-> "run", left |-> 0, pending |-> <<>>, data |-> <<>>])

\* HuggingFaceImageProvider.supportsCustomSize / supportsStyle
supportsCustomSize(modelName) ==
  \E supported \in { <<"stabilityai", Slash, "stable-diffusion-xl-base-1.0">>,
                     <<"stabilityai", Slash, "stable-diffusion-2-1">>,
                     <<"black-forest-labs", Slash, "FLUX", ".1-schnell">> } :
    Includes(modelName, supported)

supportsStyle(modelName) ==
  Includes(modelName, <<"playgroundai", Slash, "playground-v2.5-1024px-aesthetic">>)

\* HuggingFaceImageProvider.generateImages up to its first textToImage
HuggingFaceGenerateImages(provider, params) ==
  LET model == IF params.model # <<>> THEN params.model
               ELSE Keys(provider.allowedModels)[1]
      modelName == LookupOr(provider.allowedModels, model, model)
  IN IF IsThrow(validateParams(params)) THEN validateParams(params)
     ELSE IF modelName = <<>>
       THEN Throw(ModelNotAllowed(model, Keys(provider.allowedModels)))
     ELSE Await(Request("huggingface", "textToImage", modelName,
                        [prompt |-> params.prompt, n |-> 1,
                         size |-> IF supportsCustomSize(modelName)
                                    THEN params.size ELSE "",
                         style |-> IF supportsStyle(modelName)
                                     THEN params.style ELSE ""]),
                [stage |-> "first",
                 left |-> (IF params.n = 0 THEN 1 ELSE params.n) - 1,
                 pending |-> <<>>, data |-> <<>>])

\* provider.generateImages(params), by the provider's class
generateImages(provider, params) ==
  CASE provider.type = "openai" -> OpenAIGenerateImages(provider, params)
    [] provider.type = "stability" -> StabilityGenerateImages(provider, params)
    [] provider.type = "replicate" -> ReplicateGenerateImages(provider, params)
    [] provider.type = "huggingface" -> HuggingFaceGenerateImages(provider, params)

NoImages == S("At least one image file path is required")
ImageNotFound(path) == S("Image file not found: ") \o path
MaskNotFound(path) == S("Mask file not found: ") \o path

\* the images of the list that fs.existsSync does not find, in list order
Missing(images, existing) == SelectSeq(images, LAMBDA path : path \notin existing)

\* OpenAIImageProvider.editImages up to its fetch; every listed image is read
OpenAIEditImages(provider, params, existing) ==
  LET allowed == Values(provider.allowedModels)
      model == IF params.model # <<>> THEN params.model ELSE GPT_IMAGE
  IN IF params.images = <<>> THEN Throw(NoImages)
     ELSE IF IsThrow(validateParams(params)) THEN validateParams(params)
     ELSE IF ~ArrIncludes(allowed, model)
       THEN Throw(ModelNotAllowed(model, allowed))
     ELSE IF model # DALLE2 /\ model # GPT_IMAGE
       THEN Throw(S("Only dall-e-2 and gpt-image-1 are supported for image editing"))
     ELSE IF model = DALLE2 /\ Len(params.images) # 1
       THEN Throw(S("dall-e-2 only supports a single image for editing"))
     ELSE IF model = DALLE2 /\ params.size # ""
             /\ params.size \notin {"256x256", "512x512", "1024x1024"}
       THEN Throw(S("dall-e-2 only supports sizes 256x256, 512x512, or 1024x1024"))
     ELSE IF Missing(params.images, existing) # <<>>
       THEN Throw(ImageNotFound(Missing(params.images, existing)[1]))
     ELSE IF params.mask # <<>> /\ params.mask \notin existing
       THEN Throw(MaskNotFound(params.mask))
     ELSE Await(Request("openai", "images/edits", model,
                        [prompt |-> params.prompt, n |-> params.n,
                         size |-> params.size, style |-> ""]),
                [stage |-> "fetch", left |-> 0, pending |-> <<>>, data |-> <<>>])

\* StabilityImageProvider.editImages up to its fetch; only images[0] is read
StabilityEditImages(provider, params, existing) ==
  LET allowed == Values(provider.allowedModels)
      model == IF params.model # <<>> THEN params.model
               ELSE getDefaultModel(provider)
  IN IF params.images = <<>> THEN Throw(NoImages)
     ELSE IF IsThrow(validateParams(params)) THEN validateParams(params)
     ELSE IF ~ArrIncludes(allowed, model)
       THEN Throw(ModelNotAllowed(model, allowed))
     ELSE IF params.images[1] \notin existing
       THEN Throw(ImageNotFound(params.images[1]))
     ELSE IF params.mask # <<>> /\ params.mask \notin existing
       THEN Throw(MaskNotFound(params.mask))
     ELSE Await(Request("stability", "image-to-image", model,
                        [prompt |-> params.prompt, n |-> params.n,
                         size |-> "", style |-> ""]),
                [stage |-> "fetch", left |-> 0, pending |-> <<>>, data |-> <<>>])

ReplicateError(message) == Throw(S("Replicate API error: ") \o message)
HuggingFaceError(message) == Throw(S("HuggingFace API error: ") \o message)

\* ReplicateImageProvider.editImages up to replicate.run; the file checks are
\* inside its try block, so their errors are rewrapped
ReplicateEditImages(provider, params, existing) ==
  LET model == IF params.model # <<>> THEN params.model
               ELSE Keys(provider.allowedModels)[1]
      modelVersion == LookupOr(provider.allowedModels, model, model)
  IN IF params.images = <<>> THEN Throw(NoImages)
     ELSE IF IsThrow(validateParams(params)) THEN validateParams(params)
     ELSE IF modelVersion = <<>>
       THEN Throw(ModelNotAllowed(model, Keys(provider.allowedModels)))
     ELSE IF params.images[1] \notin existing
       THEN ReplicateError(ImageNotFound(params.images[1]))
     ELSE IF params.mask # <<>> /\ params.mask \notin existing
       THEN ReplicateError(MaskNotFound(params.mask))
     ELSE Await(Request("replicate", "run", modelVersion,
                        [prompt |-> params.prompt, n |-> params.n,
                         size |-> params.size, style |-> ""]),
                [stage |-> "run", left |-> 0, pending |-> <<>>, data |-> <<>>])

\* HuggingFaceImageProvider.editImages up to imageToImage; params.mask is
\* never looked at
HuggingFaceEditImages(provider, params, existing) ==
  LET model == IF params.model # <<>> THEN params.model
               ELSE Keys(provider.allowedModels)[1]
      modelName == LookupOr(provider.allowedModels, model, model)
  IN IF params.images = <<>> THEN Throw(NoImages)
     ELSE IF IsThrow(validateParams(params)) THEN validateParams(params)
     ELSE IF modelName = <<>>
       THEN Throw(ModelNotAllowed(model, Keys(provider.allowedModels)))
     ELSE IF params.images[1] \notin existing
       THEN HuggingFaceError(ImageNotFound(params.images[1]))
     ELSE Await(Request("huggingface", "imageToImage", modelName,
                        [prompt |-> params.prompt, n |-> 1,
                         size |-> "", style |-> ""]),
                [stage |-> "imageToImage", left |-> 0, pending |-> <<>>,
                 data |-> <<>>])

\* provider.editImages(params), by the provider's class
editImages(provider, params, existing) ==
  CASE provider.type = "openai" -> OpenAIEditImages(provider, params, existing)
    [] provider.type = "stability" -> StabilityEditImages(provider, params, existing)
    [] provider.type = "replicate" -> ReplicateEditImages(provider, params, existing)
    [] provider.type = "huggingface" -> HuggingFaceEditImages(provider, params, existing)

\* what a backend can answer: images, no image, an image without payload,
\* an HTTP error status, or no answer at all
Image(b64) == [b64_json |-> b64]
OkOne == [kind |-> "ok", data |-> <<Image(S("aW1hZ2U="))>>, message |-> <<>>]
OkNone == [kind |-> "ok", data |-> <<>>, message |-> <<>>]
OkNoPayload == [kind |-> "ok", data |-> <<Image(<<>>)>>, message |-> <<>>]
HttpError == [kind |-> "httpError", data |-> <<>>, message |-> S("Bad Request")]
NetworkError == [kind |-> "networkError", data |-> <<>>,
                 message |-> S("socket hang up")]
BackendOutcomes == {OkOne, OkNone, OkNoPayload, HttpError, NetworkError}

\* the blob a HuggingFace call answers with, as base64
BlobOf(outcome) ==
  IF outcome.data = <<>> THEN Image(<<>>) ELSE outcome.data[1]

\* the rest of OpenAI generateImages / editImages after the fetch
OpenAIResume(outcome) ==
  CASE outcome.kind = "ok" -> Return(outcome.data)
    [] outcome.kind = "httpError" ->
         Throw(S("OpenAI API error: ") \o outcome.message)
    [] outcome.kind = "networkError" -> Throw(outcome.message)

\* the rest of Stability generateImages / editImages after the fetch
StabilityResume(outcome) ==
  CASE outcome.kind = "ok" -> Return(outcome.data)
    [] outcome.kind = "httpError" ->
         Throw(S("Stability AI API error: ") \o outcome.message)
    [] outcome.kind = "networkError" -> Throw(outcome.message)

\* the download loop of the Replicate provider: one fetch per output URL
ReplicateDownload(request, pending, data) ==
  IF pending = <<>> THEN Return(data)
  ELSE Await([request EXCEPT !.endpoint = "download"],
             [stage |-> "download", left |-> 0, pending |-> pending,
              data |-> data])

\* the rest of Replicate generateImages / editImages after replicate.run or
\* after a download; a download is not checked for its HTTP status, so the
\* body of an error answer is stored as the image
ReplicateResume(request, k, outcome) ==
  IF k.stage = "run"
    THEN IF outcome.kind = "ok"
           THEN ReplicateDownload(request, outcome.data, <<>>)
           ELSE ReplicateError(outcome.message)
    ELSE CASE outcome.kind = "ok" ->
                ReplicateDownload(request, Tail(k.pending),
                                  Append(k.data, Head(k.pending)))
           [] outcome.kind = "httpError" ->
                ReplicateDownload(request, Tail(k.pending),
                                  Append(k.data, Image(outcome.message)))
           [] outcome.kind = "networkError" -> ReplicateError(outcome.message)

\* (mutation of HuggingFaceGenerateResume: an additional call that fails is
\* skipped)
HuggingFaceGenerateResume_SkipFailed(request, k, outcome) ==
  IF outcome.kind # "ok" /\ k.stage = "first"
    THEN HuggingFaceError(outcome.message)
  ELSE LET data == IF outcome.kind = "ok" THEN Append(k.data, BlobOf(outcome))
                   ELSE k.data
       IN IF k.left = 0 THEN Return(data)
          ELSE Await([request EXCEPT !.body.size = "", !.body.style = ""],
                     [stage |-> "additional", left |-> k.left - 1,
                      pending |-> <<>>, data |-> data])

\* the rest of HuggingFace generateImages after a textToImage call: one call
\* per requested image, the additional ones without size and style
HuggingFaceGenerateResume(request, k, outcome) ==
  IF outcome.kind # "ok" THEN HuggingFaceError(outcome.message)
  ELSE IF k.left = 0 THEN Return(Append(k.data, BlobOf(outcome)))
  ELSE Await([request EXCEPT !.body.size = "", !.body.style = ""],
             [stage |-> "additional", left |-> k.left - 1, pending |-> <<>>,
              data |-> Append(k.data, BlobOf(outcome))])

\* the rest of HuggingFace editImages: a failed imageToImage falls back to
\* one textToImage call
HuggingFaceEditResume(request, k, outcome) ==
  IF outcome.kind = "ok" THEN Return(<<BlobOf(outcome)>>)
  ELSE IF k.stage = "imageToImage"
    THEN Await([request EXCEPT !.endpoint = "textToImage"],
               [stage |-> "fallback", left |-> 0, pending |-> <<>>,
                data |-> <<>>])
  ELSE HuggingFaceError(outcome.message)

\* the provider method resumed with the backend's answer
resume(tool, request, k, outcome) ==
  CASE request.provider = "openai" -> OpenAIResume(outcome)
    [] request.provider = "stability" -> StabilityResume(outcome)
    [] request.provider = "replicate" -> ReplicateResume(request, k, outcome)
    [] request.provider = "huggingface" ->
         IF tool = "text-to-image"
           THEN HuggingFaceGenerateResume(request, k, outcome)
           ELSE HuggingFaceEditResume(request, k, outcome)

\* File paths are strings whose tokens are the separator, the extension dot
\* and the names between them: '/out/a.png' is
\* <<Slash, "out", Slash, "a", Dot, "png">>.  <<>> is the empty string and
\* the absent argument (both are falsy).  The paths of this model carry no
\* trailing separator and no '.' or '..' segment.
Dot == "."

\* the last position of tok in s, 0 when it does not occur
LastIndexOf(s, tok) ==
  IF \E i \in 1..Len(s) : s[i] = tok
    THEN CHOOSE i \in 1..Len(s) :
           s[i] = tok /\ \A j \in (i + 1)..Len(s) : s[j] # tok
    ELSE 0

\* path.parse(p): dir is what precedes the last separator ('/' for an entry
\* of the root, '' when there is no separator), base what follows it, ext
\* the part of base from its last dot on unless that dot opens base
PathParse(p) ==
  LET sep == LastIndexOf(p, Slash)
      base == SubSeq(p, sep + 1, Len(p))
      dot == LastIndexOf(base, Dot)
  IN [dir |-> IF sep = 0 THEN <<>>
              ELSE IF sep = 1 THEN <<Slash>>
              ELSE SubSeq(p, 1, sep - 1),
      base |-> base,
      ext |-> IF dot > 1 THEN SubSeq(base, dot, Len(base)) ELSE <<>>]

\* path.join(dir, name)
PathJoin(dir, name) ==
  IF dir = <<>> THEN name
  ELSE IF dir[Len(dir)] = Slash THEN dir \o name
  ELSE dir \o <<Slash>> \o name

\* (mutation of saveImageToTempFile: a generated file is always named
\* 'image', no uuid is used)
saveImageToTempFile_FixedName(outputFormat, outputPath, uuid) ==
  IF outputPath # <<>>
    THEN IF PathParse(outputPath).ext # <<>> THEN outputPath
         ELSE PathJoin(outputPath, <<"image", Dot, outputFormat>>)
    ELSE PathJoin(<<Slash, "tmp">>, <<"image", Dot, outputFormat>>)

\* (mutation of saveImageToTempFile: outputPath is ignored, the file always
\* goes to '/tmp')
saveImageToTempFile_TempOnly(outputFormat, outputPath, uuid) ==
  PathJoin(<<Slash, "tmp">>, <<uuid, Dot, outputFormat>>)

\* saveImageToTempFile (the same in the four providers): the path the image
\* is written to.  The extension of outputPath decides whether it names the
\* file or a directory; without outputPath the file goes to '/tmp'
saveImageToTempFile(outputFormat, outputPath, uuid) ==
  IF outputPath # <<>>
    THEN IF PathParse(outputPath).ext # <<>> THEN outputPath
         ELSE PathJoin(outputPath, <<uuid, Dot, outputFormat>>)
    ELSE PathJoin(<<Slash, "tmp">>, <<uuid, Dot, outputFormat>>)

\* the directory saveImageToTempFile makes sure of before it writes: the
\* parent of a file path, the path itself otherwise
EnsuredDirectory(outputPath) ==
  IF PathParse(outputPath).ext # <<>> THEN PathParse(outputPath).dir
  ELSE outputPath

\* fs.existsSync(path) on a disk with these files and directories
existsSync(path, existingFiles, existingDirs) ==
  path = <<Slash>> \/ path \in existingFiles \/ path \in existingDirs

\* dir and the directories above it, the root left out
Ancestors(dir) ==
  { SubSeq(dir, 1, i) : i \in {j \in 1..Len(dir) :
      /\ dir[j] # Slash
      /\ (j = Len(dir) \/ dir[j + 1] = Slash)} }

\* does fs.mkdirSync(dir, {recursive: true}) throw: '' is no path (ENOENT),
\* and a file cannot be a directory of the path (ENOTDIR, EEXIST)
mkdirSyncFails(dir, existingFiles) ==
  dir = <<>> \/ \E a \in Ancestors(dir) : a \in existingFiles

\* does saveImageToTempFile call mkdirSync: only for an outputPath whose
\* directory existsSync does not find
CallsMkdir(outputPath, existingFiles, existingDirs) ==
  /\ outputPath # <<>>
  /\ ~existsSync(EnsuredDirectory(outputPath), existingFiles, existingDirs)

\* the directories on disk after saveImageToTempFile
DirsAfterSave(outputPath, existingFiles, existingDirs) ==
  IF /\ CallsMkdir(outputPath, existingFiles, existingDirs)
     /\ ~mkdirSyncFails(EnsuredDirectory(outputPath), existingFiles)
    THEN existingDirs \cup Ancestors(EnsuredDirectory(outputPath))
    ELSE existingDirs

\* does fs.writeFileSync(target) throw on this disk: the parent is no
\* directory (ENOENT, ENOTDIR) or target is one (EISDIR); a relative
\* target's first directory is the working directory
writeFileSyncFails(target, existingDirs) ==
  \/ target \in existingDirs
  \/ /\ PathParse(target).dir \notin {<<>>, <<Slash>>}
     /\ PathParse(target).dir \notin existingDirs

\* saveImageToTempFile as a whole on a disk: the path it returns or the
\* error of mkdirSync or writeFileSync; written is FALSE when the write is
\* refused for a reason outside the model (permissions, a full disk)
SaveImage(outputFormat, outputPath, uuid, existingFiles, existingDirs, written) ==
  LET target == saveImageToTempFile(outputFormat, outputPath, uuid)
  IN IF /\ CallsMkdir(outputPath, existingFiles, existingDirs)
        /\ mkdirSyncFails(EnsuredDirectory(outputPath), existingFiles)
       THEN Throw(S("ENOTDIR: not a directory, mkdir"))
     ELSE IF writeFileSyncFails(target,
               DirsAfterSave(outputPath, existingFiles, existingDirs))
       THEN Throw(S("ENOENT: no such file or directory, open"))
     ELSE IF ~written THEN Throw(S("EACCES: permission denied, open"))
     ELSE Return(target)

(***************************************************************************)
(* State.                                                                  *)
(***************************************************************************)
VARIABLES
  env,          \* process.env restricted to the credential variables
  config,       \* the Partial<MultiProviderConfig> given to createFromConfig
  status,       \* "starting", "ready", or "failed" (startup threw)
  startupError, \* message of the error that ended startup, <<>> when none
  factory,      \* [providers, defaultProvider] of the ImageProviderFactory
  lastCall,     \* the last call made on the factory and what it returned
  argv,         \* the server's command line: [providers, models]
  flatModels,   \* the server's flattened catalog, prefixed name -> backend id
  defaultModel, \* the server's default model name
  scenario,     \* which set the tool invocations of this run are drawn from
  calls,        \* the tool invocations: one record per invocation slot
  files,        \* the files that exist on disk
  dirs,         \* the directories that exist on disk
  uuids         \* how many uuids uuidv4() has handed out

factoryVars == <<env, config, status, startupError, factory>>
serverVars == <<argv, flatModels, defaultModel, scenario, calls, files, dirs,
               uuids>>
vars == <<env, config, status, startupError, factory, lastCall,
          argv, flatModels, defaultModel, scenario, calls, files, dirs, uuids>>

EnvValues == {Undefined, "", "sk-key"}

NoFactory == [providers |-> <<>>, defaultProvider |-> Undefined]
NoCall == [op |-> "none", arg |-> <<>>, result |-> Return(<<>>)]

\* provider lists of at most MaxProviders entries (repetitions allowed)
ProviderLists == UNION {[1..n -> ProviderType] : n \in 0..MaxProviders}

NoSettings == [p \in ProviderType |-> None]

NoArgv == [providers |-> <<>>, models |-> <<>>]

\* the server part of the state when only the factory is exercised
NoServer ==
  /\ argv = NoArgv
  /\ flatModels = <<>>
  /\ defaultModel = <<>>
  /\ scenario = "none"
  /\ calls = <<>>
  /\ files = {}
  /\ dirs = {}
  /\ uuids = 0

(***************************************************************************)
(* Registry construction and its getters.                                  *)
(***************************************************************************)
FactoryConfigs ==
  [providers : {None} \cup {Some(l) : l \in ProviderLists},
   defaultProvider : {Undefined} \cup ProviderType,
   providerSettings :
     {NoSettings,
      [p \in ProviderType |-> Some(<<S("dall-e-3"), <<"stability-ai", Slash, "sdxl">>>>)]}]

InitFactory ==
  /\ env \in [EnvKeys -> EnvValues]
  /\ config \in FactoryConfigs
  /\ status = "starting"
  /\ startupError = <<>>
  /\ factory = NoFactory
  /\ lastCall = NoCall
  /\ NoServer

\* ImageProviderFactory.createFromConfig(config)
CreateFromConfig ==
  /\ status = "starting"
  /\ LET made == createFromConfig(env, config)
     IN IF IsThrow(made)
          THEN /\ status' = "failed"
               /\ startupError' = made.message
               /\ factory' = factory
          ELSE /\ status' = "ready"
               /\ startupError' = startupError
               /\ factory' = made.value
  /\ UNCHANGED <<env, config, lastCall>>
  /\ UNCHANGED serverVars

\* providerFactory.getProvider(providerType?)
GetProvider(providerType) ==
  /\ status = "ready"
  /\ lastCall' = [op |-> "getProvider", arg |-> S(providerType),
                  result |-> getProvider(factory, providerType)]
  /\ UNCHANGED factoryVars
  /\ UNCHANGED serverVars

\* providerFactory.getDefaultProvider()
GetDefaultProvider ==
  /\ status = "ready"
  /\ lastCall' = [op |-> "getDefaultProvider", arg |-> <<>>,
                  result |-> getDefaultProvider(factory)]
  /\ UNCHANGED factoryVars
  /\ UNCHANGED serverVars

\* providerFactory.getAvailableProviders()
GetAvailableProviders ==
  /\ status = "ready"
  /\ lastCall' = [op |-> "getAvailableProviders", arg |-> <<>>,
                  result |-> Return(getAvailableProviders(factory))]
  /\ UNCHANGED factoryVars
  /\ UNCHANGED serverVars

NextFactory ==
  \/ CreateFromConfig
  \/ \E providerType \in ProviderType \cup {Undefined} : GetProvider(providerType)
  \/ GetDefaultProvider
  \/ GetAvailableProviders

FactorySpec == InitFactory /\ [][NextFactory]_vars

(***************************************************************************)
(* Claims about registry construction.                                     *)
(***************************************************************************)
HasCredential(p) == Truthy(env[PROVIDER_CONFIGS[p].envKey])

\* the identities the configuration enables: the explicit list, or every
\* identity when no list is supplied
Enabled ==
  IF IsSome(config.providers)
    THEN {Get(config.providers)[i] : i \in 1..Len(Get(config.providers))}
    ELSE ProviderType

Live == {factory.providers[i].key : i \in 1..Len(factory.providers)}

\* C1: when no enabled provider has a non-empty credential, startup fails
\* with the configuration error; a registry that was returned always holds at
\* least one live client.
C1_NoCredentialFails ==
  /\ (status # "starting" /\ ~\E p \in Enabled : HasCredential(p))
       => (status = "failed" /\ startupError = NoProvidersMessage)
  /\ status = "ready" => Len(factory.providers) > 0

C1_Witness ==
  /\ status = "failed"
  /\ IsSome(config.providers)
  /\ Len(Get(config.providers)) = MaxProviders
  /\ \E p \in ProviderType \ Enabled : HasCredential(p)

C3_DefaultIsLive ==
  status = "ready" =>
    /\ factory.defaultProvider \in Live
    /\ lastCall.op = "getDefaultProvider" => ~IsThrow(lastCall.result)
    /\ (lastCall.op = "getProvider" /\ lastCall.arg = S(Undefined))
         => ~IsThrow(lastCall.result)

C3_Witness ==
  /\ status = "ready"
  /\ config.defaultProvider # Undefined
  /\ ~HasCredential(config.defaultProvider)
  /\ lastCall.op = "getProvider"
  /\ lastCall.arg = S(Undefined)

\* the enablement order of the configuration
EnablementOrder ==
  IF IsSome(config.providers) THEN Get(config.providers) ELSE ProviderOrder

FirstLiveEnabled ==
  EnablementOrder[CHOOSE i \in 1..Len(EnablementOrder) :
                    /\ EnablementOrder[i] \in Live
                    /\ \A j \in 1..(i - 1) : EnablementOrder[j] \notin Live]

\* C4: the default is the requested default when that provider initialized,
\* otherwise the first provider in enablement order that initialized.
C4_DefaultSelection ==
  status = "ready" =>
    factory.defaultProvider =
      IF config.defaultProvider # Undefined /\ config.defaultProvider \in Live
        THEN config.defaultProvider
        ELSE FirstLiveEnabled

(***************************************************************************)
(* The model resolver.                                                     *)
(***************************************************************************)
\* allow-lists given to every provider (the --models flag reaches each
\* enabled provider's allowedModels)
AllowLists ==
  { None,
    Some(<<S("dall-e-3")>>),
    Some(<<S("flux")>>),
    Some(<<<<"stability-ai", Slash, "sdxl">>>>),
    Some(<<S("dall-e-3"), <<"stability-ai", Slash, "sdxl">>>>) }

ResolverConfigs ==
  [providers : {None} \cup {Some(l) : l \in ProviderLists},
   defaultProvider : {Undefined, "replicate"},
   providerSettings : {[p \in ProviderType |-> a] : a \in AllowLists}]

InitResolver ==
  /\ env \in [EnvKeys -> {Undefined, "sk-key"}]
  /\ config \in ResolverConfigs
  /\ status = "starting"
  /\ startupError = <<>>
  /\ factory = NoFactory
  /\ lastCall = NoCall
  /\ NoServer

\* every name getAllProviderModels lists
AdvertisedNames(f) ==
  LET all == getAllProviderModels(f)
  IN UNION {{all[i].value[j].key : j \in 1..Len(all[i].value)} :
              i \in 1..Len(all)}

\* further strings asked of the resolver: bare backend ids and keys, prefixed
\* backend ids, strings of no catalog, and the empty string
OtherModelIds ==
  { S("dall-e-3"), S("DALLE3"), S("no-such-model"), <<>>,
    <<"openai", Slash, "dall-e-3">>,
    <<"stability-ai", Slash, "sdxl">>,
    <<"midjourney", Slash, "v6">>,
    <<"openai", Slash, "dall-e-3", Slash, "hd">>,
    <<"huggingface", Slash, "dalle-mini", Slash, "dalle-mini">> }

\* providerFactory.getAllProviderModels()
GetAllProviderModels ==
  /\ status = "ready"
  /\ lastCall' = [op |-> "getAllProviderModels", arg |-> <<>>,
                  result |-> Return(getAllProviderModels(factory))]
  /\ UNCHANGED factoryVars
  /\ UNCHANGED serverVars

\* providerFactory.getProviderFromModel(modelId)
GetProviderFromModel(modelId) ==
  /\ status = "ready"
  /\ lastCall' = [op |-> "getProviderFromModel", arg |-> modelId,
                  result |-> getProviderFromModel(factory, modelId)]
  /\ UNCHANGED factoryVars
  /\ UNCHANGED serverVars

NextResolver ==
  \/ CreateFromConfig
  \/ GetAllProviderModels
  \/ \E modelId \in AdvertisedNames(factory) \cup OtherModelIds :
       GetProviderFromModel(modelId)

ResolverSpec == InitResolver /\ [][NextResolver]_vars

(***************************************************************************)
(* Claims about the resolver.                                              *)
(***************************************************************************)
Client(p) == Lookup(factory.providers, p)

\* modelId is a key or a backend id of a live provider's catalog, bare or
\* behind that provider's prefix
MatchesSomeCatalog(modelId) ==
  \E p \in Live :
    \E i \in 1..Len(getAllowedModels(Client(p))) :
      LET e == getAllowedModels(Client(p))[i]
      IN modelId \in {e.key, e.value, Prefixed(p, e.key), Prefixed(p, e.value)}

\* C7: getProviderFromModel('X/Y') returns X's client and Y's backend id when
\* X is live and Y is a key of X's catalog; a string matching no catalog
\* yields the default provider and the string itself; no input raises.
C7_ResolveModel ==
  lastCall.op = "getProviderFromModel" =>
    /\ ~IsThrow(lastCall.result)
    /\ \A p \in Live :
         \A i \in 1..Len(getAllowedModels(Client(p))) :
           LET e == getAllowedModels(Client(p))[i]
           IN lastCall.arg = Prefixed(p, e.key)
                => lastCall.result.value = [provider |-> Client(p), model |-> e.value]
    /\ ~MatchesSomeCatalog(lastCall.arg)
         => lastCall.result.value =
              [provider |-> Client(factory.defaultProvider), model |-> lastCall.arg]

\* C8: every name 'providerId/modelKey' listed by getAllProviderModels
\* resolves to exactly the client of providerId and the listed backend id.
C8_AdvertisedNamesResolve ==
  lastCall.op = "getProviderFromModel" =>
    LET all == getAllProviderModels(factory)
    IN \A i \in 1..Len(all) :
         \A j \in 1..Len(all[i].value) :
           lastCall.arg = all[i].value[j].key
             => /\ ~IsThrow(lastCall.result)
                /\ lastCall.result.value.provider = factory.providers[i].value
                /\ lastCall.result.value.model = all[i].value[j].value


(***************************************************************************)
(* The server: bootstrap from the command line, and the two tools.         *)
(***************************************************************************)
\* the command line's --providers names that are ProviderType values
enabledProviders(args) ==
  SelectSeq(args.providers, LAMBDA a : a \in ProviderType)

\* factoryConfig as the top of index.ts builds it from the flags
factoryConfig(args) ==
  LET enabled == enabledProviders(args)
      targets == IF Len(enabled) > 0 THEN {enabled[i] : i \in 1..Len(enabled)}
                 ELSE {"openai"}
  IN [providers |-> IF Len(enabled) > 0 THEN Some(enabled) ELSE None,
      defaultProvider |-> IF Len(enabled) > 0 THEN enabled[1] ELSE Undefined,
      providerSettings |->
        [p \in ProviderType |->
           IF Len(args.models) > 0 /\ p \in targets THEN Some(args.models)
           ELSE None]]

\* Object.assign(flatModels, models) over the providers' prefixed catalogs
RECURSIVE AssignAll(_, _)
AssignAll(obj, entries) ==
  IF entries = <<>> THEN obj
  ELSE AssignAll(ObjSet(obj, entries[1].key, entries[1].value), Tail(entries))

RECURSIVE Flatten(_, _)
Flatten(allModels, acc) ==
  IF allModels = <<>> THEN acc
  ELSE Flatten(Tail(allModels), AssignAll(acc, allModels[1].value))

\* Object.keys(flatModels)[0] || defaultProvider.getDefaultModel()
DefaultModelOf(f, flat) ==
  IF flat # <<>> /\ flat[1].key # <<>> THEN flat[1].key
  ELSE getDefaultModel(getDefaultProvider(f).value)

\* a tool's arguments as the caller sends them; model <<>>, provider "" and
\* mask <<>> are omitted arguments; text is the prompt of either tool
NoOutputPath == <<>>
Args(text, model, provider, images, mask, n, size, background, output_format, outputPath) ==
  [text |-> text, model |-> model, provider |-> provider, images |-> images,
   mask |-> mask, n |-> n, size |-> size, style |-> "vivid",
   background |-> background, output_format |-> output_format,
   outputPath |-> outputPath]

NoArgs == Args(<<>>, <<>>, "", <<>>, <<>>, 1, "1024x1024", "auto", "png",
               NoOutputPath)
NoRequest == Request("", "", <<>>,
                     [prompt |-> <<>>, n |-> 0, size |-> "", style |-> ""])
NoK == [stage |-> "", left |-> 0, pending |-> <<>>, data |-> <<>>]

\* the provider method of an invocation has not ended yet
NoResult == [type |-> "none"]

\* an invocation slot: where the handler is, what it was called with, the
\* client and model it resolved, the backend request it waits for, how many
\* backend calls it has issued, the kind of the backend's last answer, what
\* the provider method ended with, and what the handler returned to the
\* transport
IdleCall ==
  [pc |-> "idle", tool |-> "", args |-> NoArgs, client |-> "", model |-> <<>>,
   request |-> NoRequest, k |-> NoK, backendCalls |-> 0, answer |-> "",
   result |-> NoResult, response |-> Return(<<>>)]

\* the schema's .default(defaultModel) on the model argument
SchemaModel(dModel, model) == IF model = <<>> THEN dModel ELSE model

\* (mutation of SelectTarget: the model decides the client before the
\* provider argument is looked at)
SelectTarget_ModelFirst(f, dModel, provider, model) ==
  IF model # <<>> THEN getProviderFromModel(f, model)
  ELSE Return([provider |-> getProvider(f, provider).value, model |-> dModel])

\* the handlers' choice of client and model, model being the parsed argument
SelectTarget(f, dModel, provider, model) ==
  LET targetProvider == getDefaultProvider(f)
      targetModel == IF model # <<>> THEN model ELSE dModel
  IN IF IsThrow(targetProvider) THEN targetProvider
     ELSE IF provider # ""
       THEN LET named == getProvider(f, provider)
            IN IF IsThrow(named) THEN named
               ELSE Return([provider |-> named.value, model |-> targetModel])
     ELSE IF model # <<>> THEN getProviderFromModel(f, model)
     ELSE Return([provider |-> targetProvider.value, model |-> targetModel])

\* the params object a handler hands to generateImages / editImages
ParamsOf(tool, args, targetModel) ==
  [prompt |-> args.text, model |-> targetModel, n |-> args.n,
   size |-> args.size,
   style |-> IF tool = "text-to-image" THEN args.style ELSE "",
   background |-> IF tool = "text-to-image" THEN args.background ELSE "",
   output_format |-> args.output_format,
   images |-> IF tool = "image-to-image" THEN args.images ELSE <<>>,
   mask |-> IF tool = "image-to-image" THEN args.mask ELSE <<>>]

ErrorPrefix(tool) ==
  IF tool = "text-to-image" THEN S("Error generating image: ")
  ELSE S("Error editing image: ")

\* (mutation of HandlerCatch: the error is thrown on)
HandlerCatch_Rethrow(tool, thrown) == thrown

\* the handlers' catch block: the error becomes the text of a tool response
HandlerCatch(tool, thrown) == Return(ErrorPrefix(tool) \o thrown.message)

\* (mutation of Complete: the payload of the first image is not checked)
Complete_NoPayloadCheck(call, data, uuid, written) ==
  IF data = <<>> THEN Throw(S("No images were generated"))
  ELSE SaveImage(call.args.output_format, call.args.outputPath, uuid,
                 files, dirs, written)

\* what the handler does once the provider method has returned result.data:
\* the two emptiness checks, then saveImageToTempFile on the disk as it is;
\* the text returned is the path of the file
Complete(call, data, uuid, written) ==
  IF data = <<>> THEN Throw(S("No images were generated"))
  ELSE IF data[1].b64_json = <<>>
    THEN Throw(S("Image data not found in response"))
  ELSE SaveImage(call.args.output_format, call.args.outputPath, uuid,
                 files, dirs, written)

\* does saveImageToTempFile draw a uuid for this outputPath
NeedsUuid(outputPath) ==
  outputPath = <<>> \/ PathParse(outputPath).ext = <<>>

\* the handler of invocation i, whose record so far is call, runs on from
\* step, the result of the provider method so far: it waits for the backend,
\* or ends with a response
Advance(i, call, step, written) ==
  IF IsAwait(step)
    THEN /\ calls' = [calls EXCEPT ![i] =
                        [call EXCEPT !.pc = "backend",
                                     !.request = step.request,
                                     !.k = step.k,
                                     !.backendCalls = @ + 1]]
         /\ UNCHANGED <<files, dirs, uuids>>
         /\ written
    ELSE \E reachedSave \in {~IsThrow(step) /\ step.value # <<>>
                               /\ step.value[1].b64_json # <<>>} :
         \E finished \in {IF IsThrow(step) THEN step
                           ELSE Complete(call, step.value,
                                         "uuid-" \o ToString(uuids), written)} :
            /\ calls' = [calls EXCEPT ![i] =
                           [call EXCEPT
                              !.pc = "done",
                              !.result = IF call.client = "" THEN NoResult
                                         ELSE step,
                              !.response =
                                 IF IsThrow(finished)
                                   THEN HandlerCatch(call.tool, finished)
                                   ELSE finished]]
            /\ uuids' = IF reachedSave /\ NeedsUuid(call.args.outputPath)
                          THEN uuids + 1 ELSE uuids
            /\ files' = IF IsThrow(finished) THEN files
                        ELSE files \cup {finished.value}
            /\ dirs' = IF reachedSave
                         THEN DirsAfterSave(call.args.outputPath, files, dirs)
                         ELSE dirs
            /\ (written \/ reachedSave)

\* the top-level script of index.ts: flags -> factoryConfig ->
\* createFromConfig -> flatModels and defaultModel; an error ends the process
Bootstrap ==
  /\ status = "starting"
  /\ scenario # "none"
  /\ config' = factoryConfig(argv)
  /\ \E made \in {createFromConfig(env, factoryConfig(argv))} :
       IF IsThrow(made) \/ IsThrow(getDefaultProvider(made.value))
         THEN /\ status' = "failed"
              /\ startupError' = IF IsThrow(made) THEN made.message
                                 ELSE getDefaultProvider(made.value).message
              /\ UNCHANGED <<factory, flatModels, defaultModel>>
         ELSE \E flat \in {Flatten(getAllProviderModels(made.value), <<>>)} :
                /\ status' = "ready"
                /\ factory' = made.value
                /\ flatModels' = flat
                /\ defaultModel' = DefaultModelOf(made.value, flat)
                /\ UNCHANGED startupError
  /\ UNCHANGED <<env, lastCall, argv, scenario, calls, files, dirs, uuids>>

\* the tool's schema on the provider argument: z.enum of the live providers,
\* optional
SchemaAccepts(args) ==
  args.provider = "" \/ HasKey(factory.providers, args.provider)

\* a tool call whose arguments the schema does not accept: the handler is
\* not run, the request is answered with the validation error
Reject(i, tool, args) ==
  /\ status = "ready"
  /\ calls[i].pc = "idle"
  /\ ~SchemaAccepts(args)
  /\ calls' = [calls EXCEPT ![i] =
                 [@ EXCEPT !.pc = "rejected", !.tool = tool, !.args = args]]
  /\ UNCHANGED <<factoryVars, lastCall, argv, flatModels, defaultModel,
                 scenario, files, dirs, uuids>>

\* a tool handler up to its first await: the schema default, the choice of
\* client and model, and the provider method up to its backend call
Invoke(i, tool, args) ==
  /\ status = "ready"
  /\ calls[i].pc = "idle"
  /\ SchemaAccepts(args)
  /\ \E target \in {SelectTarget(factory, defaultModel, args.provider,
                                 SchemaModel(defaultModel, args.model))} :
       \E step \in
            { IF IsThrow(target) THEN target
              ELSE IF tool = "text-to-image"
                THEN generateImages(target.value.provider,
                                    ParamsOf(tool, args, target.value.model))
              ELSE editImages(target.value.provider,
                              ParamsOf(tool, args, target.value.model),
                              files) } :
         \E call \in
              { [calls[i] EXCEPT
                   !.tool = tool,
                   !.args = args,
                   !.client = IF IsThrow(target) THEN ""
                              ELSE target.value.provider.type,
                   !.model = IF IsThrow(target) THEN <<>>
                             ELSE target.value.model] } :
           Advance(i, call, step, TRUE)
  /\ UNCHANGED <<factoryVars, lastCall, argv, flatModels, defaultModel,
                 scenario>>

\* (mutation of BackendResponds: the answers are handled through one queue,
\* an invocation being resumed only when no later one waits for its backend)
BackendResponds_Queued(i, outcome, written) ==
  /\ calls[i].pc = "backend"
  /\ \A j \in 1..Len(calls) : j > i => calls[j].pc # "backend"
  /\ \E step \in {resume(calls[i].tool, calls[i].request, calls[i].k, outcome)} :
       Advance(i, [calls[i] EXCEPT !.answer = outcome.kind], step, written)
  /\ UNCHANGED <<factoryVars, lastCall, argv, flatModels, defaultModel,
                 scenario>>

\* (mutation of BackendResponds: after a failed answer the last live provider
\* is made the default)
BackendResponds_FailOver(i, outcome, written) ==
  /\ calls[i].pc = "backend"
  /\ \E step \in {resume(calls[i].tool, calls[i].request, calls[i].k, outcome)} :
       Advance(i, [calls[i] EXCEPT !.answer = outcome.kind], step, written)
  /\ factory' = IF outcome.kind = "ok" THEN factory
                ELSE [factory EXCEPT !.defaultProvider =
                        factory.providers[Len(factory.providers)].key]
  /\ UNCHANGED <<env, config, status, startupError, lastCall, argv,
                 flatModels, defaultModel, scenario>>

\* the backend answers the call invocation i waits for; the provider method
\* and then the handler run on to the next await or to the response
BackendResponds(i, outcome, written) ==
  /\ calls[i].pc = "backend"
  /\ \E step \in {resume(calls[i].tool, calls[i].request, calls[i].k, outcome)} :
       Advance(i, [calls[i] EXCEPT !.answer = outcome.kind], step, written)
  /\ UNCHANGED <<factoryVars, lastCall, argv, flatModels, defaultModel,
                 scenario>>

\* process.env with credentials for exactly the providers in ps
EnvWith(ps) ==
  [key \in EnvKeys |->
     IF \E p \in ps : PROVIDER_CONFIGS[p].envKey = key THEN "sk-key"
     ELSE Undefined]

ServerEnvs ==
  { EnvWith({}), EnvWith({"openai"}), EnvWith({"replicate", "huggingface"}),
    EnvWith({"openai", "stability"}), EnvWith(ProviderType) }

\* command lines: --providers lists (one with a name that is no provider)
\* and --models lists
ServerArgvs ==
  [providers : { <<>>, <<"openai">>, <<"replicate", "openai">>,
                 <<"huggingface", "replicate">>, <<"midjourney", "stability">> },
   models : { <<>>, <<S("dall-e-3")>>, <<S("flux")>>,
              <<<<"stability-ai", Slash, "sdxl">>>> }]

Scenarios == {"dispatch", "params", "files", "paths", "concurrent"}
Tools == {"text-to-image", "image-to-image"}

\* the paths the invocations use
InA == <<Slash, "in", Slash, "a", Dot, "png">>
InMissing == <<Slash, "in", Slash, "missing", Dot, "png">>
InNoMask == <<Slash, "in", Slash, "nomask", Dot, "png">>
OutFile == <<Slash, "out", Slash, "a", Dot, "png">>
OutDir == <<Slash, "out">>
DeepFile == <<Slash, "out", Slash, "new", Slash, "b", Dot, "png">>
RelFile == <<"out", Slash, "a", Dot, "png">>
RelDir == <<"outdir">>

\* the disk at startup: the source image and '/tmp', and in the variants
\* '/out' as a directory, '/out' as a file, '/out/a.png' as a directory
EmptyDisk == [files |-> {InA}, dirs |-> {<<Slash, "in">>, <<Slash, "tmp">>}]
Disks ==
  { EmptyDisk,
    [EmptyDisk EXCEPT !.dirs = @ \cup {OutDir}],
    [EmptyDisk EXCEPT !.files = @ \cup {OutDir}],
    [EmptyDisk EXCEPT !.dirs = @ \cup {OutDir, OutFile}] }

EmptyConfig ==
  [providers |-> None, defaultProvider |-> Undefined,
   providerSettings |-> NoSettings]

InitServer ==
  /\ env \in ServerEnvs
  /\ argv \in ServerArgvs
  /\ scenario \in Scenarios
  /\ scenario = "concurrent" => argv = NoArgv
  /\ scenario = "files" => argv.models = <<>>
  /\ scenario \in {"concurrent", "params"} =>
       /\ argv.providers = <<>>
       /\ env \in {EnvWith({"openai"}), EnvWith({"replicate", "huggingface"})}
  /\ scenario = "paths" => argv = NoArgv /\ env = EnvWith({"openai"})
  /\ config = EmptyConfig
  /\ status = "starting"
  /\ startupError = <<>>
  /\ factory = NoFactory
  /\ lastCall = NoCall
  /\ flatModels = <<>>
  /\ defaultModel = <<>>
  /\ calls = [i \in 1..(IF scenario = "concurrent" THEN MaxCalls ELSE 1) |->
                IdleCall]
  /\ \E disk \in (IF scenario = "paths" THEN Disks ELSE {EmptyDisk}) :
       files = disk.files /\ dirs = disk.dirs
  /\ uuids = 0

\* the values the tools' schemas accept for provider and model: a live
\* provider or none, a backend id of the flattened catalog or none
ProviderArgs == {""} \cup {factory.providers[i].key : i \in 1..Len(factory.providers)}
ModelArgs == {<<>>} \cup {flatModels[i].value : i \in 1..Len(flatModels)}

Cat == S("a cat")

\* the invocations of each scenario, as <<tool, args>>
Requests ==
  CASE scenario = "dispatch" ->
         { <<tool, Args(Cat, model, provider, <<InA>>, <<>>, 1,
                        "1024x1024", "auto", "png", OutFile)>> :
             tool \in Tools, model \in ModelArgs, provider \in ProviderArgs }
    [] scenario = "params" ->
         { <<"text-to-image",
             Args(Cat, model, "", <<>>, <<>>, x[1], x[2], x[3], x[4], OutFile)>> :
             model \in ModelArgs,
             x \in {1, 2} \X {"256x256", "1024x1024", "1792x1024"}
                   \X {"auto", "transparent"} \X {"png", "jpeg"} }
    [] scenario = "files" ->
         { <<tool, Args(x[1], <<>>, "", x[2], x[3], 1, "1024x1024", "auto",
                        "png", x[4])>> :
             tool \in Tools,
             x \in {<<>>, Cat}
                   \X { <<>>, <<InA>>, <<InMissing>>, <<InA, InMissing>> }
                   \X {<<>>, InA, InNoMask}
                   \X {NoOutputPath, OutFile, OutDir} }
    [] scenario = "paths" ->
         { <<"text-to-image",
             Args(Cat, <<>>, "", <<>>, <<>>, 1, "1024x1024", "auto",
                  output_format, outputPath)>> :
             output_format \in {"png", "jpeg"},
             outputPath \in {NoOutputPath, OutFile, OutDir, DeepFile,
                             RelFile, RelDir} }
    [] scenario = "concurrent" ->
         { <<"text-to-image",
             Args(Cat, <<>>, "", <<>>, <<>>, 1, "1024x1024", "auto", "png",
                  outputPath)>> :
             outputPath \in {NoOutputPath, OutFile} }
         \cup { <<"image-to-image",
                  Args(Cat, <<>>, "", <<OutFile>>, <<>>, 1, "1024x1024",
                       "auto", "png", OutDir)>> }
         \cup { <<"text-to-image",
                  Args(Cat, <<>>, "stability", <<>>, <<>>, 1, "1024x1024",
                       "auto", "png", OutFile)>> }
    [] OTHER -> {}

Next ==
  \/ Bootstrap
  \/ \E i \in {j \in 1..Len(calls) : status = "ready" /\ calls[j].pc = "idle"} :
       \E r \in Requests : Invoke(i, r[1], r[2])
  \/ \E i \in {j \in 1..Len(calls) : status = "ready" /\ calls[j].pc = "idle"} :
       \E r \in Requests : Reject(i, r[1], r[2])
  \/ \E i \in 1..Len(calls) : \E outcome \in BackendOutcomes :
       \E written \in BOOLEAN : BackendResponds(i, outcome, written)

Spec == InitServer /\ [][Next]_vars


(***************************************************************************)
(* Claims about the tools.                                                 *)
(***************************************************************************)
Started == {i \in 1..Len(calls) : calls[i].pc \in {"backend", "done"}}
Done == {i \in 1..Len(calls) : calls[i].pc = "done"}

\* the response of invocation i is an error text
IsErrorText(i) ==
  /\ calls[i].response.type = "return"
  /\ StartsWith(calls[i].response.value, ErrorPrefix(calls[i].tool))
  /\ Len(calls[i].response.value) > 1

\* the response of invocation i is the path of a file that was written
IsWrittenPath(i) ==
  /\ calls[i].response.type = "return"
  /\ calls[i].response.value \in files

\* C5: in both tools the client that receives the generate/edit call is the
\* named provider whenever provider is given, otherwise the provider the
\* registry resolves from the model string, and the registry's default
\* provider when neither is given; the backend asked is that client's.
C5_TargetClient ==
  \A i \in Started :
    LET a == calls[i].args
    IN /\ a.provider # "" => calls[i].client = a.provider
       /\ (a.provider = "" /\ a.model # <<>>) =>
            calls[i].client =
              getProviderFromModel(factory, a.model).value.provider.type
       /\ (a.provider = "" /\ a.model = <<>>) =>
            calls[i].client = factory.defaultProvider
       /\ calls[i].backendCalls > 0 => calls[i].request.provider = calls[i].client

\* a call that names a provider other than the one its model implies has
\* reached that provider's backend
C5_Witness ==
  \E i \in Started :
    /\ calls[i].args.provider # ""
    /\ calls[i].args.model # <<>>
    /\ getProviderFromModel(factory, calls[i].args.model).value.provider.type
         # calls[i].args.provider
    /\ calls[i].backendCalls > 0
    /\ calls[i].request.provider = calls[i].args.provider

\* C6: the model handed to the client is the caller's model as the registry
\* resolver reinterprets it, and a call that names only a provider is run
\* with a backend id of that provider's exposed catalog and is not rejected
\* as a disallowed model.
C6_ModelHandedToClient ==
  \A i \in Started :
    LET a == calls[i].args
        catalog == getAllowedModels(Lookup(factory.providers, calls[i].client))
    IN /\ (a.provider = "" /\ a.model # <<>>) =>
            calls[i].model = getProviderFromModel(factory, a.model).value.model
       /\ (a.provider # "" /\ a.model = <<>>) =>
            /\ ArrIncludes(Values(catalog), calls[i].model)
            /\ ~( /\ calls[i].pc = "done"
                  /\ StartsWith(calls[i].response.value,
                                ErrorPrefix(calls[i].tool) \o S("Model \"")) )

\* every finished invocation returned a tool response carrying the written
\* path or an error text
C9_NormalResponse == \A i \in Done : IsWrittenPath(i) \/ IsErrorText(i)

\* a step of one invocation leaves every other invocation as it was, a
\* finished invocation keeps its response, and a step that ends an
\* invocation with an error writes no file
C9_NoInterference ==
  \A i \in 1..Len(calls) :
    /\ calls'[i] # calls[i] =>
         /\ calls[i].pc # "done"
         /\ \A j \in 1..Len(calls) \ {i} : calls'[j] = calls[j]
    /\ (calls[i].pc # "done" /\ calls'[i].pc = "done"
        /\ StartsWith(calls'[i].response.value, ErrorPrefix(calls'[i].tool)))
         => files' = files

\* C9: every invocation of text-to-image or image-to-image that ends returns
\* a normal tool response with the written file path or a human-readable
\* error text, whatever failed; no exception reaches the transport, and a
\* failing invocation changes nothing of any other invocation.
C9_AlwaysToolResponse == []C9_NormalResponse /\ [][C9_NoInterference]_vars

\* one invocation ended with an error text after its backend failed while
\* another one ended with the file it wrote
C9_Witness ==
  \E i, j \in Done :
    /\ i # j
    /\ IsErrorText(i)
    /\ calls[i].backendCalls > 0
    /\ IsWrittenPath(j)

\* the request of invocation i breaks a model-specific constraint of OpenAI
\* generate
ViolatesConstraint(i) ==
  LET a == calls[i].args
      model == calls[i].model
  IN \/ model = DALLE3 /\ a.n > 1
     \/ model = DALLE2 /\ a.size \notin {"256x256", "512x512", "1024x1024"}
     \/ model = DALLE3 /\ a.size \notin {"1024x1024", "1792x1024", "1024x1792"}
     \/ a.background = "transparent" /\ a.output_format \notin {"png", "webp"}

\* C10: an OpenAI generate request that breaks a model-specific constraint
\* (n > 1 for dall-e-3, a size outside the whitelist of dall-e-2 or of
\* dall-e-3, a transparent background with a format other than png or webp)
\* is rejected with an error, and no backend call is issued for it.
C10_RejectedBeforeBackend ==
  \A i \in Started :
    (calls[i].tool = "text-to-image" /\ calls[i].client = "openai"
     /\ ViolatesConstraint(i)) =>
      /\ calls[i].pc = "done"
      /\ IsErrorText(i)
      /\ calls[i].backendCalls = 0

\* a dall-e-3 request for two images has been rejected
C10_Witness ==
  \E i \in Done :
    /\ calls[i].tool = "text-to-image"
    /\ calls[i].client = "openai"
    /\ calls[i].model = DALLE3
    /\ calls[i].args.n = 2
    /\ calls[i].args.size = "1024x1024"
    /\ calls[i].args.background = "auto"
    /\ calls[i].response.value =
         ErrorPrefix("text-to-image") \o S("dall-e-3 model only supports n=1")

(***************************************************************************)
(* Claims about the provider clients' checks.                              *)
(***************************************************************************)
\* the local files invocation i refers to: its source images and its mask
Referenced(i) ==
  {calls[i].args.images[n] : n \in 1..Len(calls[i].args.images)}
    \cup (IF calls[i].args.mask # <<>> THEN {calls[i].args.mask} ELSE {})

\* invocation i is an edit request whose only defect can be a missing file:
\* with every referenced file on disk its client would call the backend
EditValidButForFiles(i) ==
  /\ calls[i].tool = "image-to-image"
  /\ calls[i].client # ""
  /\ IsAwait(editImages(Lookup(factory.providers, calls[i].client),
                        ParamsOf(calls[i].tool, calls[i].args, calls[i].model),
                        files \cup Referenced(i)))

\* C11: for every provider client, an edit request in which a referenced
\* local file (an element of the source-image list, or the mask) does not
\* exist fails with an error naming the missing path, and no backend call is
\* issued for it.
C11_MissingFileRejected ==
  \A i \in Started :
    (EditValidButForFiles(i) /\ Referenced(i) \ files # {}) =>
      /\ calls[i].pc = "done"
      /\ calls[i].backendCalls = 0
      /\ IsErrorText(i)
      /\ \E path \in Referenced(i) \ files :
           Includes(calls[i].response.value, path)

\* the model handed to the client of invocation i is neither a key nor a
\* backend id of the catalog that client exposes
OutsideCatalog(i) ==
  LET catalog == getAllowedModels(Lookup(factory.providers, calls[i].client))
  IN /\ ~ArrIncludes(Keys(catalog), calls[i].model)
     /\ ~ArrIncludes(Values(catalog), calls[i].model)

\* C12: no provider client issues a backend call for a model that is not in
\* its exposed catalog: a generate or edit request whose model is outside
\* the allowed models is rejected with a 'model is not allowed' error before
\* any network call.
C12_NoCallForDisallowedModel ==
  \A i \in Started :
    (calls[i].client # "" /\ calls[i].args.text # <<>> /\ OutsideCatalog(i)) =>
      /\ calls[i].pc = "done"
      /\ calls[i].backendCalls = 0
      /\ Includes(calls[i].response.value, S("\" is not allowed. Allowed models: "))

(***************************************************************************)
(* Claims about the exposed catalogs.                                      *)
(***************************************************************************)
\* the catalog of provider p's capability descriptor
DefaultCatalog(p) ==
  CASE p = "openai" -> OPENAI_MODELS
    [] p = "stability" -> STABILITY_MODELS
    [] p = "replicate" -> REPLICATE_MODELS
    [] p = "huggingface" -> HUGGINGFACE_MODELS

\* the live providers of the registry
LiveProviders == {factory.providers[i].key : i \in 1..Len(factory.providers)}

\* no name of the allow-list equals, or is part of, a key or a backend id of
\* catalog, letter case aside
MatchesNoEntry(names, catalog) ==
  \A n \in 1..Len(names) : \A e \in 1..Len(catalog) :
    /\ ~Includes(ToLowerCase(catalog[e].key), ToLowerCase(names[n]))
    /\ ~Includes(ToLowerCase(catalog[e].value), ToLowerCase(names[n]))

\* C13: for every provider client, when a non-empty allow-list matches no
\* entry of the provider's default catalog, construction succeeds and the
\* client exposes the provider's full default catalog.
C13_FallbackToDefaultCatalog ==
  status = "ready" =>
    \A p \in LiveProviders :
      LET allowed == config.providerSettings[p]
      IN (/\ IsSome(allowed)
          /\ Len(Get(allowed)) > 0
          /\ MatchesNoEntry(Get(allowed), DefaultCatalog(p)))
           => getAllowedModels(Client(p)) = DefaultCatalog(p)

\* C14: for every provider client and every allow-list, the catalog
\* getAllowedModels returns is a subset of the provider's default catalog:
\* every exposed (key, backend id) pair is a pair of the default catalog.
C14_ExposedWithinDefault ==
  status = "ready" =>
    \A p \in LiveProviders :
      \A e \in 1..Len(getAllowedModels(Client(p))) :
        \E d \in 1..Len(DefaultCatalog(p)) :
          DefaultCatalog(p)[d] = getAllowedModels(Client(p))[e]

(***************************************************************************)
(* Claims about the written files.                                         *)
(***************************************************************************)
\* the provider method of invocation i returned an image with a payload, so
\* the handler went on to saveImageToTempFile
ReachedSave(i) ==
  /\ calls[i].pc = "done"
  /\ calls[i].result.type = "return"
  /\ calls[i].result.value # <<>>
  /\ calls[i].result.value[1].b64_json # <<>>

\* path is a file '<name>.<format>' directly inside dir
NamedInside(path, dir, format) ==
  /\ PathParse(path).dir = dir
  /\ Len(PathParse(path).base) = 3
  /\ SubSeq(PathParse(path).base, 2, 3) = <<Dot, format>>

\* does outputPath end in a file extension: a dot inside its last segment
HasExtension(outputPath) ==
  \E n \in 2..Len(outputPath) :
    /\ outputPath[n] = Dot
    /\ outputPath[n - 1] # Slash
    /\ \A m \in n..Len(outputPath) : outputPath[m] # Slash

\* the step ends invocation i in saveImageToTempFile: either nothing is
\* written, or the file is the one the syntax of outputPath names
C15_Step(i) ==
  LET outputPath == calls'[i].args.outputPath
      format == calls'[i].args.output_format
      path == calls'[i].response.value
  IN (calls[i].pc # "done" /\ ReachedSave(i)') =>
       \/ IsErrorText(i)' /\ files' = files
       \/ /\ files' = files \cup {path}
          /\ CASE outputPath = <<>> ->
                    /\ NamedInside(path, <<Slash, "tmp">>, format)
                    /\ path \notin files
               [] outputPath # <<>> /\ HasExtension(outputPath) ->
                    /\ path = outputPath
                    /\ PathParse(path).dir \in dirs'
               [] outputPath # <<>> /\ ~HasExtension(outputPath) ->
                    /\ NamedInside(path, outputPath, format)
                    /\ path \notin files
                    /\ outputPath \in dirs'

\* C15: saveImageToTempFile resolves its target from the syntax of
\* outputPath alone, never from what is on disk: without outputPath it writes
\* a freshly named '<uuid>.<format>' file in the system temporary directory;
\* an outputPath with a file extension is written as exactly that path, its
\* missing parent directories created; an outputPath without extension is
\* created as a directory if absent and receives a freshly named
\* '<uuid>.<format>' file.
C15_SyntacticResolution == [][\A i \in 1..Len(calls) : C15_Step(i)]_vars

\* one invocation wrote exactly the file path it was given, and another
\* wrote a generated name into an outputPath without extension, a directory
\* that had to be created
C15_Witness ==
  \E i, j \in Done :
    /\ calls[i].args.outputPath = OutFile
    /\ calls[i].response.value = OutFile
    /\ OutFile \in files
    /\ calls[j].args.outputPath = OutDir
    /\ IsWrittenPath(j)
    /\ calls[j].response.value # OutFile
    /\ OutDir \in dirs

\* path.isAbsolute(path)
IsAbsolute(path) == path # <<>> /\ path[1] = Slash

\* C16: saveImageToTempFile returns an absolute path for every outputPath it
\* accepts (absent, absolute or relative, with or without an extension), and
\* the path returned is the path of the file it wrote.
C16_ReturnsAbsolutePath ==
  \A i \in Done :
    (ReachedSave(i) /\ ~IsErrorText(i)) =>
      /\ calls[i].response.value \in files
      /\ IsAbsolute(calls[i].response.value)

\* invocation i gave no output path and its image was written
WroteUnnamed(i) ==
  /\ calls[i].args.outputPath = <<>>
  /\ ReachedSave(i)
  /\ ~IsErrorText(i)

\* C17: for any interleaving of two or more concurrent tool invocations that
\* give no explicit output path, the file paths written and returned are
\* pairwise distinct, so no invocation overwrites the file of another.
C17_DistinctPaths ==
  \A i, j \in Done :
    (i # j /\ WroteUnnamed(i) /\ WroteUnnamed(j)) =>
      /\ calls[i].response.value # calls[j].response.value
      /\ {calls[i].response.value, calls[j].response.value} \subseteq files

\* two invocations of the run whose invocations interleave gave no output
\* path and both wrote their image
C17_Witness ==
  /\ scenario = "concurrent"
  /\ \E i, j \in Done :
       /\ i # j
       /\ WroteUnnamed(i)
       /\ WroteUnnamed(j)
       /\ calls[i].tool = "text-to-image"
       /\ calls[j].tool = "text-to-image"

(***************************************************************************)
(* Claims about the error texts.                                           *)
(***************************************************************************)
\* the provider method of invocation i returned without an image: an empty
\* list, or a first image without base64 payload
ReturnedNoImage(i) ==
  /\ calls[i].pc = "done"
  /\ calls[i].result.type = "return"
  /\ \/ calls[i].result.value = <<>>
     \/ calls[i].result.value[1].b64_json = <<>>

\* the prefixes under which the provider clients report a backend failure
ApiErrorPrefixes ==
  { S("OpenAI API error: "), S("Stability AI API error: "),
    S("Replicate API error: "), S("HuggingFace API error: ") }

\* the response of invocation i is one of the handler's two 'no image'
\* texts, which carry no provider prefix and no message of the backend
IsNoImageText(i) ==
  /\ calls[i].response.type = "return"
  /\ calls[i].response.value \in
       { ErrorPrefix(calls[i].tool) \o S("No images were generated"),
         ErrorPrefix(calls[i].tool) \o S("Image data not found in response") }
  /\ \A prefix \in ApiErrorPrefixes :
       ~Includes(calls[i].response.value, prefix)
  /\ \A outcome \in BackendOutcomes :
       outcome.message # <<>> =>
         ~Includes(calls[i].response.value, outcome.message)

\* a step that ends invocation i without an image writes no file
C18_NoFileWritten ==
  \A i \in 1..Len(calls) :
    (calls[i].pc # "done" /\ ReturnedNoImage(i)') =>
      files' = files /\ dirs' = dirs

\* C18: when the resolved client returns success with an empty image list,
\* or with a first image that carries no base64 payload, the tool returns a
\* 'no image produced' error text that differs from the backend and transport
\* error texts, and no file is written for that invocation.
C18_NoImageProduced ==
  /\ [](\A i \in Done : ReturnedNoImage(i) => IsNoImageText(i))
  /\ [][C18_NoFileWritten]_vars

\* a client returned an empty list to one invocation and an image without
\* payload to another
C18_Witness ==
  \E i, j \in Done :
    /\ calls[i].result = Return(<<>>)
    /\ calls[j].result.type = "return"
    /\ calls[j].result.value # <<>>
    /\ calls[j].result.value[1].b64_json = <<>>
    /\ IsNoImageText(i)
    /\ IsNoImageText(j)

\* message opens with a provider's backend-error prefix
HasApiErrorPrefix(message) ==
  \E prefix \in ApiErrorPrefixes : StartsWith(message, prefix)

\* the provider method of invocation i threw on a failed backend call
FailedAtBackend(i) ==
  /\ calls[i].backendCalls > 0
  /\ calls[i].answer \in {"httpError", "networkError"}

\* C19: an error surfaced by a provider client carries the provider-name
\* backend-error prefix if and only if it originates from a backend call:
\* every backend failure (HTTP error status, transport failure) is prefixed,
\* and a local validation error (missing prompt, missing image or mask file)
\* never is.
C19_PrefixIffBackendError ==
  \A i \in Done :
    calls[i].result.type = "throw" =>
      (HasApiErrorPrefix(calls[i].result.message) <=> FailedAtBackend(i))

(***************************************************************************)
(* Claims about providers that are not live.                               *)
(***************************************************************************)
\* the provider names a caller can ask for that are not in the registry
NotLive == (ProviderType \cup {"midjourney"}) \ LiveProviders

\* getProvider refuses every name that is not live with the
\* provider-unavailable error naming it
C20_Unavailable ==
  status = "ready" =>
    \A p \in NotLive :
      /\ IsThrow(getProvider(factory, p))
      /\ StartsWith(getProvider(factory, p).message,
                    S("Provider ") \o S(p)
                      \o S(" is not available. Available providers: "))

\* a tool call that names a provider that is not live is answered with its
\* error without a backend call, and served calls name live providers only
C20_CallRefused ==
  \A i \in 1..Len(calls) :
    /\ (calls[i].pc # "idle" /\ calls[i].args.provider \in NotLive) =>
         /\ calls[i].pc = "rejected"
         /\ calls[i].backendCalls = 0
         /\ calls[i].client = ""
    /\ calls[i].pc \in {"backend", "done"} => calls[i].args.provider \notin NotLive

\* a step never changes the registry once it is built, and the step that
\* refuses invocation i changes no file and no other invocation
C20_NothingElseChanges ==
  /\ status = "ready" => factory' = factory /\ status' = status
  /\ \A i \in 1..Len(calls) :
       (calls[i].pc = "idle" /\ calls'[i].pc = "rejected") =>
         /\ files' = files
         /\ dirs' = dirs
         /\ \A j \in 1..Len(calls) \ {i} : calls'[j] = calls[j]

RegistryView(f) ==
  [live |-> getAvailableProviders(f),
   default |-> f.defaultProvider,
   catalogs |-> [n \in 1..Len(f.providers) |->
                   getAllowedModels(f.providers[n].value)]]

\* C21: after initialization no text-to-image or image-to-image invocation,
\* successful or failing, in any interleaving with other invocations,
\* changes the set of live providers, the default provider, or any
\* provider's exposed model catalog.
C21_RegistryReadOnly ==
  [][status = "ready" => RegistryView(factory') = RegistryView(factory)]_vars

\* two interleaved invocations have ended, one with an error after a backend
\* call and one with a written image, and the registry is the one startup
\* built
C21_Witness ==
  /\ status = "ready"
  /\ Len(factory.providers) > 1
  /\ factory = createFromConfig(env, factoryConfig(argv)).value
  /\ \E i, j \in Done :
       /\ IsErrorText(i)
       /\ calls[i].backendCalls > 0
       /\ IsWrittenPath(j)

(***************************************************************************)
(* Claims about the command line.                                          *)
(***************************************************************************)
\* the catalog a client of provider p exposes when it is constructed with
\* the allow-list names
CatalogUnder(p, names) ==
  NewProvider(p, [apiKey |-> "sk-key", allowedModels |-> Some(names)])
    .value.allowedModels

\* C22: the --models allow-list is applied to every enabled provider,
\* whether the providers were enabled with --providers or by auto-detection
\* from the credential environment variables.
C22_ModelsAppliedToAll ==
  (status = "ready" /\ argv.models # <<>>) =>
    \A p \in LiveProviders :
      /\ config.providerSettings[p] = Some(argv.models)
      /\ getAllowedModels(Client(p)) = CatalogUnder(p, argv.models)

\* the names the server advertises: the 'provider/model' keys of the
\* flattened getAllProviderModels catalog
ServerAdvertised == {flatModels[n].key : n \in 1..Len(flatModels)}

\* C23: a model argument in the advertised 'provider/model' format (the
\* names getAllProviderModels lists) is accepted by the parameter schema of
\* text-to-image and image-to-image: the set of model strings the schema
\* accepts contains every name the server advertises.
C23_AdvertisedNamesAccepted ==
  status = "ready" => ServerAdvertised \subseteq ModelArgs

(***************************************************************************)
(* The image bytes a save writes.  A payload is a string of characters,    *)
(* one token per character, so the search for 'base64,' and the decoding   *)
(* of the base64 text are computed character by character.                 *)
(***************************************************************************)
\* longest byte sequence persisted by SaveImageData
MaxBytes == 3
ByteValues == {0, 1, 128, 255}
ByteSeqs == UNION {[1..n -> ByteValues] : n \in 0..MaxBytes}

\* the 64 characters Buffer.from(text, 'base64') decodes, in value order
Base64Alphabet ==
  <<"A","B","C","D","E","F","G","H","I","J","K","L","M","N","O","P",
    "Q","R","S","T","U","V","W","X","Y","Z","a","b","c","d","e","f",
    "g","h","i","j","k","l","m","n","o","p","q","r","s","t","u","v",
    "w","x","y","z","0","1","2","3","4","5","6","7","8","9","+","/">>

\* 'base64,'
Base64Marker == <<"b","a","s","e","6","4",",">>
\* 'data:image/png;base64,'
DataUrlPrefix ==
  <<"d","a","t","a",":","i","m","a","g","e","/","p","n","g",";">> \o Base64Marker

\* base64(b): the standard encoding with '=' padding
RECURSIVE Base64Encode(_)
Base64Encode(bytes) ==
  IF bytes = <<>> THEN <<>>
  ELSE IF Len(bytes) = 1 THEN
    LET n == bytes[1] * 65536
    IN << Base64Alphabet[(n \div 262144) + 1],
          Base64Alphabet[((n \div 4096) % 64) + 1], "=", "=" >>
  ELSE IF Len(bytes) = 2 THEN
    LET n == bytes[1] * 65536 + bytes[2] * 256
    IN << Base64Alphabet[(n \div 262144) + 1],
          Base64Alphabet[((n \div 4096) % 64) + 1],
          Base64Alphabet[((n \div 64) % 64) + 1], "=" >>
  ELSE
    LET n == bytes[1] * 65536 + bytes[2] * 256 + bytes[3]
    IN << Base64Alphabet[(n \div 262144) + 1],
          Base64Alphabet[((n \div 4096) % 64) + 1],
          Base64Alphabet[((n \div 64) % 64) + 1],
          Base64Alphabet[(n % 64) + 1] >>
       \o Base64Encode(SubSeq(bytes, 4, Len(bytes)))

\* the 6-bit values of a base64 text: decoding stops at the first '=' and
\* skips every character outside the alphabet
RECURSIVE Sextets(_)
Sextets(text) ==
  IF text = <<>> \/ text[1] = "=" THEN <<>>
  ELSE LET found == {v \in 1..64 : Base64Alphabet[v] = text[1]}
       IN (IF found = {} THEN <<>> ELSE << (CHOOSE v \in found : TRUE) - 1 >>)
          \o Sextets(Tail(text))

RECURSIVE BytesOfSextets(_)
BytesOfSextets(v) ==
  IF Len(v) < 2 THEN <<>>
  ELSE IF Len(v) = 2 THEN << (v[1] * 64 + v[2]) \div 16 >>
  ELSE IF Len(v) = 3 THEN
    LET n == v[1] * 4096 + v[2] * 64 + v[3]
    IN << n \div 1024, (n \div 4) % 256 >>
  ELSE
    LET n == v[1] * 262144 + v[2] * 4096 + v[3] * 64 + v[4]
    IN << n \div 65536, (n \div 256) % 256, n % 256 >>
       \o BytesOfSextets(SubSeq(v, 5, Len(v)))

\* Buffer.from(text, 'base64')
BufferFromBase64(text) == BytesOfSextets(Sextets(text))

\* text.split(separator)[1]: what lies between the first and the second
\* occurrence of the separator (the text has at least one occurrence)
SplitSecond(text, separator) ==
  LET starts(t) == {i \in 1..(Len(t) - Len(separator) + 1) :
                      SubSeq(t, i, i + Len(separator) - 1) = separator}
      first == CHOOSE i \in starts(text) : \A j \in starts(text) : i <= j
      rest == SubSeq(text, first + Len(separator), Len(text))
  IN IF starts(rest) = {} THEN rest
     ELSE SubSeq(rest, 1, (CHOOSE i \in starts(rest) : \A j \in starts(rest) : i <= j) - 1)

\* the payload decoded as it stands, the data-URL prefix included
StripDataUrl_KeepPrefix(imageData) == imageData

\* imageData.includes('base64,') ? imageData.split('base64,')[1] : imageData
StripDataUrl(imageData) ==
  IF Includes(imageData, Base64Marker) THEN SplitSecond(imageData, Base64Marker)
  ELSE imageData

\* the buffer saveImageToTempFile hands to writeFileSync
WrittenBytes(imageData) == BufferFromBase64(StripDataUrl(imageData))

InitCodec ==
  /\ env = EnvWith({})
  /\ config = EmptyConfig
  /\ status = "starting"
  /\ startupError = <<>>
  /\ factory = NoFactory
  /\ lastCall = NoCall
  /\ NoServer

\* provider.saveImageToTempFile(imageData): the bytes that reach the file
SaveImageData(bytes, prefixed) ==
  /\ \E imageData \in {(IF prefixed THEN DataUrlPrefix ELSE <<>>) \o Base64Encode(bytes)} :
       lastCall' = [op |-> "saveImageToTempFile",
                    arg |-> [bytes |-> bytes, prefixed |-> prefixed, imageData |-> imageData],
                    result |-> Return(WrittenBytes(imageData))]
  /\ UNCHANGED <<env, config, status, startupError, factory, serverVars>>

NextCodec == \E bytes \in ByteSeqs : \E prefixed \in BOOLEAN : SaveImageData(bytes, prefixed)

CodecSpec == InitCodec /\ [][NextCodec]_vars

\* C24: saving 'data:image/png;base64,' + base64(b), or base64(b) alone,
\* writes a file whose content is exactly the byte sequence b.
C24_RoundTrip ==
  lastCall.op = "saveImageToTempFile" => lastCall.result.value = lastCall.arg.bytes

\* a prefixed payload whose encoding ends in padding has been saved
C24_Witness ==
  /\ lastCall.op = "saveImageToTempFile"
  /\ lastCall.arg.prefixed
  /\ lastCall.arg.bytes = <<255, 128>>
  /\ lastCall.arg.imageData = DataUrlPrefix \o <<"/","4","A","=">>
  /\ lastCall.result.value = <<255, 128>>

(***************************************************************************)
(* Claims about the sequence of backend calls of one invocation.           *)
(***************************************************************************)
FailureKinds == {"httpError", "networkError"}

\* in this step the backend call of invocation i is answered with a failure
FailedAnswer(i) ==
  /\ calls[i].pc = "backend"
  /\ calls'[i] # calls[i]
  /\ calls'[i].answer \in FailureKinds

\* C25: within one invocation a failed backend call is never followed by
\* another backend call; the failure ends the provider operation with an
\* error that the caller receives.
C25_FailureEndsInvocation ==
  [][\A i \in 1..Len(calls) :
       FailedAnswer(i) =>
         /\ calls'[i].pc = "done"
         /\ calls'[i].backendCalls = calls[i].backendCalls
         /\ calls'[i].result.type = "throw"
         /\ StartsWith(calls'[i].response.value, ErrorPrefix(calls'[i].tool))]_vars

\* the invocations that ran HuggingFace generateImages up to a backend call
HuggingFaceGenerate ==
  {i \in Started : calls[i].tool = "text-to-image"
                   /\ calls[i].client = "huggingface"
                   /\ calls[i].backendCalls > 0}

\* C26: HuggingFace generate with count n issues its n backend calls one
\* after another (call m is issued once m - 1 images have been received) and
\* returns exactly n images in the order of the calls; when any call fails
\* the request fails and returns no image.
C26_SequentialCalls ==
  \A i \in HuggingFaceGenerate :
    /\ calls[i].backendCalls <= calls[i].args.n
    /\ calls[i].pc = "backend" =>
         /\ Len(calls[i].k.data) = calls[i].backendCalls - 1
         /\ calls[i].k.left = calls[i].args.n - calls[i].backendCalls
    /\ calls[i].pc = "done" =>
         /\ calls[i].result.type = "return" <=> calls[i].answer = "ok"
         /\ calls[i].result.type = "return" =>
              /\ calls[i].backendCalls = calls[i].args.n
              /\ Len(calls[i].result.value) = calls[i].args.n
         /\ calls[i].result.type = "throw" =>
              StartsWith(calls[i].response.value, ErrorPrefix("text-to-image"))

\* C26 (order): every answer is appended after the images received so far.
C26_CallOrder ==
  [][\A i \in HuggingFaceGenerate :
       (calls[i].pc = "backend" /\ calls'[i] # calls[i]
        /\ calls'[i].answer = "ok") =>
         LET after == IF calls'[i].pc = "done" THEN calls'[i].result.value
                      ELSE calls'[i].k.data
         IN /\ Len(after) = Len(calls[i].k.data) + 1
            /\ SubSeq(after, 1, Len(calls[i].k.data)) = calls[i].k.data]_vars

\* two calls were made for two images, and the images differ
C26_Witness ==
  \E i \in HuggingFaceGenerate :
    /\ calls[i].pc = "done"
    /\ calls[i].args.n = 2
    /\ calls[i].backendCalls = 2
    /\ calls[i].result.type = "return"
    /\ calls[i].result.value = <<Image(<<>>), Image(S("aW1hZ2U="))>>

\* C26 as one property: the counts hold in every state and the order in
\* every step.
C26_SequentialLoop == []C26_SequentialCalls /\ C26_CallOrder

\* C30: every backend call of one HuggingFace generate request carries the
\* model, prompt and generation parameters of the first call.
C30_SameParameters ==
  [][\A i \in HuggingFaceGenerate :
       (calls[i].pc = "backend" /\ calls'[i].pc = "backend"
        /\ calls'[i].backendCalls = calls[i].backendCalls + 1) =>
         calls'[i].request = calls[i].request]_vars

\* the invocations of image-to-image whose client does not list the
\* operation among its supported features
UnsupportedEdit ==
  {i \in Started : calls[i].tool = "image-to-image" /\ calls[i].client # ""
                   /\ "image-to-image" \notin
                        PROVIDER_CONFIGS[calls[i].client].supportedFeatures}

\* C29: an image-to-image request is never handed to the edit operation of
\* a provider that does not list 'image-to-image'; it ends with an error and
\* issues no backend call.
C29_UnsupportedEditRefused ==
  \A i \in UnsupportedEdit :
    /\ calls[i].backendCalls = 0
    /\ calls[i].pc = "done"
    /\ IsErrorText(i)

(***************************************************************************)
(* Provider clients called directly, the model left unset.                 *)
(***************************************************************************)
\* the params of a request that names no model
UnsetModelParams(tool) ==
  ParamsOf(tool, Args(Cat, <<>>, "", <<InA>>, <<>>, 1, "1024x1024", "auto",
                      "png", NoOutputPath), <<>>)

\* provider.generateImages(params) without params.model, up to its backend call
ClientGenerateImages(p) ==
  /\ status = "ready"
  /\ lastCall' = [op |-> "generateImages", arg |-> p,
                  result |-> generateImages(Client(p),
                                            UnsetModelParams("text-to-image"))]
  /\ UNCHANGED factoryVars
  /\ UNCHANGED serverVars

\* provider.editImages(params) without params.model, up to its backend call
ClientEditImages(p) ==
  /\ status = "ready"
  /\ lastCall' = [op |-> "editImages", arg |-> p,
                  result |-> editImages(Client(p),
                                        UnsetModelParams("image-to-image"),
                                        {InA})]
  /\ UNCHANGED factoryVars
  /\ UNCHANGED serverVars

NextClient ==
  \/ CreateFromConfig
  \/ \E p \in LiveProviders : ClientGenerateImages(p)
  \/ \E p \in LiveProviders : ClientEditImages(p)

ClientSpec == InitResolver /\ [][NextClient]_vars

\* C28: a generate or edit request that leaves the model unset is executed
\* with a model of the client's exposed catalog, and is never rejected as
\* 'model is not allowed'.
C28_DefaultModelInCatalog ==
  lastCall.op \in {"generateImages", "editImages"} =>
    /\ IsAwait(lastCall.result)
    /\ ArrIncludes(Values(getAllowedModels(Client(lastCall.arg))),
                   lastCall.result.request.model)

(***************************************************************************)
(* Progress of the invocations.  The event loop resumes a handler once the *)
(* promise it awaits settles; that the backend of the first invocation     *)
(* settles every call is the assumption of FairSpec, while the backend of  *)
(* any other invocation may stay silent for ever.                          *)
(***************************************************************************)
\* the backend call invocation i waits for returns or fails, and the handler
\* runs on
BackendAnswers(i) ==
  /\ i \in 1..Len(calls)
  /\ \E outcome \in BackendOutcomes : \E written \in BOOLEAN :
       BackendResponds(i, outcome, written)

\* the server with two invocation slots
InitFair == InitServer /\ scenario = "concurrent"

FairSpec == InitFair /\ [][Next]_vars /\ WF_vars(BackendAnswers(1))

\* invocation i waits for its backend / has answered its caller
Waiting(i) == i \in 1..Len(calls) /\ calls[i].pc = "backend"
Completed(i) ==
  /\ i \in 1..Len(calls)
  /\ calls[i].pc = "done"
  /\ calls[i].response.type = "return"
  /\ calls[i].response.value # <<>>

\* C27: an invocation whose backend calls all return or fail completes with
\* a response, whether or not the backend call of another invocation ever
\* returns; when the calls of the other invocation return or fail as well,
\* that one completes too.
C27_IndependentCompletion ==
  /\ Waiting(1) ~> Completed(1)
  /\ WF_vars(BackendAnswers(2)) => (Waiting(2) ~> Completed(2))

\* the first invocation has completed with a file while the second still
\* waits for its backend
C27_Witness ==
  /\ Len(calls) = 2
  /\ calls[2].pc = "backend"
  /\ Completed(1)
  /\ calls[1].backendCalls > 0
  /\ IsWrittenPath(1)

============================================================================
